---- MODULE Spec2Model ----
(***************************************************************************)
(* Conversational honeypot: per-session conversation state machine and its *)
(* turn-processing pipeline.                                               *)
(*                                                                         *)
(*   session store      src/services/sessionService.js  (lines 1-125)      *)
(*   route / orchestr.  src/unnamed/part_002            (lines 134-253)    *)
(*   persona service    src/unnamed/part_000                               *)
(*   detection service  src/unnamed/part_001                               *)
(*   callback service   src/unnamed/part_003                               *)
(*   extraction service src/services/extractionService.js (lines 1-221)    *)
(*                                                                         *)
(* JavaScript strings are modelled as sequences of one-character strings,  *)
(* so that length, endsWith, trim, split and the regular-expression edits  *)
(* are computed character by character.  The character U+2026 (horizontal  *)
(* ellipsis) is written as the one-element token "U+2026".                 *)
(***************************************************************************)
EXTENDS Integers, Sequences, FiniteSets, TLC

(***************************************************************************)
(* Bounds of the model                                                     *)
(***************************************************************************)
\* longest filler of a generator output the reply specification tries
MaxGenLen == 320

(***************************************************************************)
(* String helpers (JavaScript String.prototype semantics)                  *)
(***************************************************************************)
Ellipsis == "U+2026"

\* the value JavaScript calls undefined, where a string was expected
Undefined == <<"<undefined>">>

Whitespace == {" ", "\n", "\t"}

Last(s) == s[Len(s)]

Front(s) == SubSeq(s, 1, Len(s) - 1)

RECURSIVE TrimStart(_)
TrimStart(s) ==
    IF s # <<>> /\ Head(s) \in Whitespace THEN TrimStart(Tail(s)) ELSE s

RECURSIVE TrimEnd(_)
TrimEnd(s) ==
    IF s # <<>> /\ Last(s) \in Whitespace THEN TrimEnd(Front(s)) ELSE s

\* String.prototype.trim
Trim(s) == TrimEnd(TrimStart(s))

\* String.prototype.endsWith
EndsWith(s, suffix) ==
    /\ Len(s) >= Len(suffix)
    /\ SubSeq(s, Len(s) - Len(suffix) + 1, Len(s)) = suffix

\* reply.replace(/^["']|["']$/g, "")
StripWrappingQuotes(s) ==
    LET a == IF s # <<>> /\ Head(s) \in {"\"", "'"} THEN Tail(s) ELSE s
    IN  IF a # <<>> /\ Last(a) \in {"\"", "'"} THEN Front(a) ELSE a

\* reply.replace(/^[.,;:\-\s]+/, "")
RECURSIVE StripLeadingPunctuation(_)
StripLeadingPunctuation(s) ==
    IF s # <<>> /\ Head(s) \in ({".", ",", ";", ":", "-"} \cup Whitespace)
    THEN StripLeadingPunctuation(Tail(s))
    ELSE s

LowerCase == <<"a", "b", "c", "d", "e", "f", "g", "h", "i", "j", "k", "l", "m", "n", "o", "p", "q", "r", "s", "t", "u", "v", "w", "x", "y", "z">>

UpperCase == <<"A", "B", "C", "D", "E", "F", "G", "H", "I", "J", "K", "L", "M", "N", "O", "P", "Q", "R", "S", "T", "U", "V", "W", "X", "Y", "Z">>

\* String.prototype.toUpperCase on one character
ToUpperCase(c) ==
    IF \E i \in 1..Len(LowerCase) : LowerCase[i] = c
    THEN UpperCase[CHOOSE i \in 1..Len(LowerCase) : LowerCase[i] = c]
    ELSE c

\* reply.charAt(0).toUpperCase() + reply.slice(1)
Capitalize(s) == IF Len(s) > 0 THEN <<ToUpperCase(Head(s))>> \o Tail(s) ELSE s

SetMax(S) == CHOOSE m \in S : \A x \in S : x <= m

\* reply.substring(0, n).split(".").slice(0, -1).join(".") + "."
\* split/slice/join drop the piece after the last "." of the first n
\* characters (everything, when they hold no "."); then "." is appended
TruncateAtSentence(s, n) ==
    LET cut  == SubSeq(s, 1, n)
        dots == {i \in 1..Len(cut) : cut[i] = "."}
    IN  IF dots = {} THEN <<".">> ELSE SubSeq(cut, 1, SetMax(dots) - 1) \o <<".">>

(***************************************************************************)
(* String literals of the code that the model compares or stores           *)
(***************************************************************************)
STR_bank_fraud == <<"b", "a", "n", "k", "_", "f", "r", "a", "u", "d">>

STR_upi_fraud == <<"u", "p", "i", "_", "f", "r", "a", "u", "d">>

STR_phishing == <<"p", "h", "i", "s", "h", "i", "n", "g">>

STR_unknown == <<"u", "n", "k", "n", "o", "w", "n">>

STR_lottery == <<"l", "o", "t", "t", "e", "r", "y">>

STR_kyc_scam == <<"k", "y", "c", "_", "s", "c", "a", "m">>

STR_investment == <<"i", "n", "v", "e", "s", "t", "m", "e", "n", "t">>

STR_courier == <<"c", "o", "u", "r", "i", "e", "r">>

STR_job_scam == <<"j", "o", "b", "_", "s", "c", "a", "m">>

STR_constructor == <<"c", "o", "n", "s", "t", "r", "u", "c", "t", "o", "r">>

STR_detection_fallback == <<"d", "e", "t", "e", "c", "t", "i", "o", "n", "_", "f", "a", "l", "l", "b", "a", "c", "k">>

(***************************************************************************)
(* Persona service (src/unnamed/part_000)                                  *)
(***************************************************************************)
MIN_REPLY_LENGTH == 10

MAX_REPLY_LENGTH == 300

Phases == {"STALLING", "EXTRACTING", "FAKE_COOPERATING", "CONFUSION_LOOP"}

\* the four phases in the order getEngagementPhase tests for them
PhaseOrder == <<"STALLING", "EXTRACTING", "FAKE_COOPERATING", "CONFUSION_LOOP">>

\* the same chain with strict comparisons
getEngagementPhaseStrict(turnCount) ==
    IF turnCount < 2 THEN "STALLING"
    ELSE IF turnCount < 4 THEN "EXTRACTING"
    ELSE IF turnCount < 6 THEN "FAKE_COOPERATING"
    ELSE "CONFUSION_LOOP"

getEngagementPhase(turnCount) ==
    IF turnCount <= 2 THEN "STALLING"
    ELSE IF turnCount <= 4 THEN "EXTRACTING"
    ELSE IF turnCount <= 6 THEN "FAKE_COOPERATING"
    ELSE "CONFUSION_LOOP"

hooks ==
    << <<" ", "C", "a", "n", " ", "y", "o", "u", " ", "h", "o", "l", "d", " ", "o", "n", " ", "o", "n", "e", " ", "m", "i", "n", "u", "t", "e", "?">>
     , <<" ", "W", "h", "i", "c", "h", " ", "n", "u", "m", "b", "e", "r", " ", "c", "a", "n", " ", "I", " ", "c", "a", "l", "l", " ", "y", "o", "u", " ", "b", "a", "c", "k", " ", "o", "n", "?">>
     , <<" ", "C", "a", "n", " ", "y", "o", "u", " ", "p", "l", "e", "a", "s", "e", " ", "r", "e", "p", "e", "a", "t", " ", "t", "h", "a", "t", " ", "s", "l", "o", "w", "l", "y", "?">>
     , <<" ", "W", "h", "a", "t", " ", "w", "a", "s", " ", "y", "o", "u", "r", " ", "e", "m", "p", "l", "o", "y", "e", "e", " ", "I", "D", " ", "n", "u", "m", "b", "e", "r", "?">>
     , <<" ", "H", "o", "l", "d", " ", "o", "n", ",", " ", "l", "e", "t", " ", "m", "e", " ", "c", "h", "e", "c", "k", ".", ".", ".">>
    >>

fallbacks ==
    (  STR_bank_fraud :> [
         STALLING |->
           <<"O", "h", " ", "g", "o", "d", ".", ".", ".", " ", "m", "y", " ", "a", "c", "c", "o", "u", "n", "t", "?", " ", "W", "h", "i", "c", "h", " ", "b", "a", "n", "k", " ", "a", "r", "e", " ", "y", "o", "u", " ", "c", "a", "l", "l", "i", "n", "g", " ", "f", "r", "o", "m", " ", "e", "x", "a", "c", "t", "l", "y", ",", " ", "S", "B", "I", " ", "o", "r", " ", "H", "D", "F", "C", "?", " ", "M", "y", " ", "s", "i", "g", "n", "a", "l", " ", "i", "s", " ", "v", "e", "r", "y", " ", "p", "o", "o", "r", ".">>
       , EXTRACTING |->
           <<"O", "k", "a", "y", " ", "b", "u", "t", " ", "b", "e", "f", "o", "r", "e", " ", "I", " ", "s", "h", "a", "r", "e", " ", "a", "n", "y", "t", "h", "i", "n", "g", ",", " ", "c", "a", "n", " ", "y", "o", "u", " ", "g", "i", "v", "e", " ", "m", "e", " ", "y", "o", "u", "r", " ", "e", "m", "p", "l", "o", "y", "e", "e", " ", "I", "D", " ", "a", "n", "d", " ", "a", " ", "c", "a", "l", "l", "b", "a", "c", "k", " ", "n", "u", "m", "b", "e", "r", "?", " ", "M", "y", " ", "s", "o", "n", " ", "t", "o", "l", "d", " ", "m", "e", " ", "t", "o", " ", "a", "l", "w", "a", "y", "s", " ", "v", "e", "r", "i", "f", "y", ".">>
       , FAKE_COOPERATING |->
           <<"H", "a", "a", "n", ",", " ", "l", "e", "t", " ", "m", "e", " ", "c", "h", "e", "c", "k", " ", "m", "y", " ", "p", "a", "s", "s", "b", "o", "o", "k", ".", ".", ".", " ", "I", " ", "t", "h", "i", "n", "k", " ", "a", "c", "c", "o", "u", "n", "t", " ", "n", "u", "m", "b", "e", "r", " ", "i", "s", " ", "3", "8", "4", "7", ".", ".", ".", " ", "w", "a", "i", "t", ",", " ", "t", "h", "a", "t", " ", "m", "i", "g", "h", "t", " ", "b", "e", " ", "o", "l", "d", " ", "o", "n", "e", ".", " ", "H", "o", "l", "d", " ", "o", "n", ".">>
       , CONFUSION_LOOP |->
           <<"S", "o", "r", "r", "y", ",", " ", "I", " ", "p", "r", "e", "s", "s", "e", "d", " ", "s", "o", "m", "e", "t", "h", "i", "n", "g", " ", "a", "n", "d", " ", "t", "h", "e", " ", "O", "T", "P", " ", "s", "c", "r", "e", "e", "n", " ", "d", "i", "s", "a", "p", "p", "e", "a", "r", "e", "d", ".", " ", "C", "a", "n", " ", "y", "o", "u", " ", "s", "e", "n", "d", " ", "i", "t", " ", "a", "g", "a", "i", "n", "?", " ", "W", "h", "a", "t", " ", "w", "a", "s", " ", "t", "h", "e", " ", "U", "P", "I", " ", "y", "o", "u", " ", "s", "a", "i", "d", "?">>
       ]
    @@ STR_upi_fraud :> [
         STALLING |->
           <<"C", "a", "s", "h", "b", "a", "c", "k", "?", " ", "R", "e", "a", "l", "l", "y", "?", " ", "F", "r", "o", "m", " ", "w", "h", "i", "c", "h", " ", "c", "o", "m", "p", "a", "n", "y", " ", "i", "s", " ", "t", "h", "i", "s", "?", " ", "I", " ", "d", "o", "n", "'", "t", " ", "r", "e", "m", "e", "m", "b", "e", "r", " ", "r", "e", "g", "i", "s", "t", "e", "r", "i", "n", "g", " ", "f", "o", "r", " ", "a", "n", "y", "t", "h", "i", "n", "g", ".">>
       , EXTRACTING |->
           <<"O", "k", "a", "y", ",", " ", "b", "u", "t", " ", "w", "h", "i", "c", "h", " ", "U", "P", "I", " ", "I", "D", " ", "s", "h", "o", "u", "l", "d", " ", "I", " ", "s", "e", "n", "d", " ", "t", "o", "?", " ", "G", "i", "v", "e", " ", "m", "e", " ", "y", "o", "u", "r", " ", "o", "f", "f", "i", "c", "i", "a", "l", " ", "U", "P", "I", " ", "I", "D", " ", "f", "i", "r", "s", "t", " ", "s", "o", " ", "I", " ", "c", "a", "n", " ", "s", "a", "v", "e", " ", "i", "t", ".">>
       , FAKE_COOPERATING |->
           <<"M", "y", " ", "U", "P", "I", " ", "i", "s", ".", ".", ".", " ", "r", "a", "m", "e", "s", "h", ".", "k", "u", "m", "a", "r", ".", ".", ".", " ", "w", "a", "i", "t", ",", " ", "I", " ", "h", "a", "v", "e", " ", "t", "w", "o", " ", "U", "P", "I", " ", "a", "p", "p", "s", ".", " ", "W", "h", "i", "c", "h", " ", "o", "n", "e", " ", "y", "o", "u", " ", "n", "e", "e", "d", ",", " ", "P", "h", "o", "n", "e", "P", "e", " ", "o", "r", " ", "G", "o", "o", "g", "l", "e", " ", "P", "a", "y", "?">>
       , CONFUSION_LOOP |->
           <<"I", " ", "e", "n", "t", "e", "r", "e", "d", " ", "t", "h", "e", " ", "a", "m", "o", "u", "n", "t", " ", "b", "u", "t", " ", "i", "t", "'", "s", " ", "s", "h", "o", "w", "i", "n", "g", " ", "e", "r", "r", "o", "r", ".", " ", "W", "h", "a", "t", " ", "w", "a", "s", " ", "t", "h", "e", " ", "U", "P", "I", " ", "I", "D", " ", "a", "g", "a", "i", "n", "?", " ", "I", " ", "t", "h", "i", "n", "k", " ", "I", " ", "t", "y", "p", "e", "d", " ", "i", "t", " ", "w", "r", "o", "n", "g", ".">>
       ]
    @@ STR_phishing :> [
         STALLING |->
           <<"A", " ", "l", "i", "n", "k", "?", " ", "M", "y", " ", "s", "o", "n", " ", "s", "a", "i", "d", " ", "n", "e", "v", "e", "r", " ", "c", "l", "i", "c", "k", " ", "u", "n", "k", "n", "o", "w", "n", " ", "l", "i", "n", "k", "s", ".", " ", "I", "s", " ", "t", "h", "i", "s", " ", "f", "r", "o", "m", " ", "o", "f", "f", "i", "c", "i", "a", "l", " ", "w", "e", "b", "s", "i", "t", "e", "?", " ", "W", "h", "a", "t", " ", "i", "s", " ", "t", "h", "e", " ", "f", "u", "l", "l", " ", "a", "d", "d", "r", "e", "s", "s", "?">>
       , EXTRACTING |->
           <<"C", "a", "n", " ", "y", "o", "u", " ", "s", "e", "n", "d", " ", "m", "e", " ", "t", "h", "e", " ", "l", "i", "n", "k", " ", "o", "n", " ", "W", "h", "a", "t", "s", "A", "p", "p", "?", " ", "W", "h", "a", "t", " ", "i", "s", " ", "y", "o", "u", "r", " ", "W", "h", "a", "t", "s", "A", "p", "p", " ", "n", "u", "m", "b", "e", "r", "?", " ", "I", " ", "w", "a", "n", "t", " ", "t", "o", " ", "s", "a", "v", "e", " ", "i", "t", ".">>
       , FAKE_COOPERATING |->
           <<"I", " ", "o", "p", "e", "n", "e", "d", " ", "t", "h", "e", " ", "l", "i", "n", "k", " ", "b", "u", "t", " ", "i", "t", "'", "s", " ", "l", "o", "a", "d", "i", "n", "g", " ", "v", "e", "r", "y", " ", "s", "l", "o", "w", ".", " ", "M", "y", " ", "i", "n", "t", "e", "r", "n", "e", "t", " ", "i", "s", " ", "w", "e", "a", "k", ".", " ", "W", "h", "a", "t", " ", "s", "h", "o", "u", "l", "d", " ", "I", " ", "f", "i", "l", "l", " ", "f", "i", "r", "s", "t", "?">>
       , CONFUSION_LOOP |->
           <<"T", "h", "e", " ", "p", "a", "g", "e", " ", "a", "s", "k", "e", "d", " ", "f", "o", "r", " ", "O", "T", "P", " ", "b", "u", "t", " ", "t", "h", "e", "n", " ", "i", "t", " ", "c", "l", "o", "s", "e", "d", " ", "i", "t", "s", "e", "l", "f", ".", " ", "C", "a", "n", " ", "y", "o", "u", " ", "s", "e", "n", "d", " ", "t", "h", "e", " ", "l", "i", "n", "k", " ", "a", "g", "a", "i", "n", "?">>
       ]
    @@ STR_unknown :> [
         STALLING |->
           <<"S", "o", "r", "r", "y", ",", " ", "I", " ", "d", "i", "d", "n", "'", "t", " ", "c", "a", "t", "c", "h", " ", "t", "h", "a", "t", " ", "p", "r", "o", "p", "e", "r", "l", "y", ".", " ", "C", "a", "n", " ", "y", "o", "u", " ", "r", "e", "p", "e", "a", "t", " ", "s", "l", "o", "w", "l", "y", "?", " ", "W", "h", "o", " ", "a", "r", "e", " ", "y", "o", "u", " ", "c", "a", "l", "l", "i", "n", "g", " ", "f", "r", "o", "m", "?">>
       , EXTRACTING |->
           <<"O", "k", "a", "y", ",", " ", "b", "u", "t", " ", "f", "i", "r", "s", "t", " ", "t", "e", "l", "l", " ", "m", "e", " ", "y", "o", "u", "r", " ", "n", "a", "m", "e", " ", "a", "n", "d", " ", "e", "m", "p", "l", "o", "y", "e", "e", " ", "n", "u", "m", "b", "e", "r", ".", " ", "A", "n", "d", " ", "w", "h", "i", "c", "h", " ", "n", "u", "m", "b", "e", "r", " ", "i", "s", " ", "t", "h", "i", "s", " ", "o", "f", "f", "i", "c", "i", "a", "l", "l", "y", "?">>
       , FAKE_COOPERATING |->
           <<"H", "a", "a", "n", " ", "h", "a", "a", "n", ",", " ", "I", " ", "a", "m", " ", "c", "h", "e", "c", "k", "i", "n", "g", ".", ".", ".", " ", "g", "i", "v", "e", " ", "m", "e", " ", "o", "n", "e", " ", "m", "i", "n", "u", "t", "e", " ", "o", "n", "l", "y", ".", " ", "W", "h", "a", "t", " ", "w", "a", "s", " ", "t", "h", "e", " ", "r", "e", "f", "e", "r", "e", "n", "c", "e", " ", "n", "u", "m", "b", "e", "r", " ", "y", "o", "u", " ", "s", "a", "i", "d", "?">>
       , CONFUSION_LOOP |->
           <<"S", "o", "r", "r", "y", " ", "m", "y", " ", "p", "h", "o", "n", "e", " ", "h", "u", "n", "g", " ", "u", "p", " ", "f", "o", "r", " ", "a", " ", "s", "e", "c", "o", "n", "d", ".", " ", "Y", "o", "u", " ", "w", "e", "r", "e", " ", "s", "a", "y", "i", "n", "g", " ", "s", "o", "m", "e", "t", "h", "i", "n", "g", " ", "a", "b", "o", "u", "t", ".", ".", ".", " ", "w", "h", "i", "c", "h", " ", "a", "c", "c", "o", "u", "n", "t", " ", "e", "x", "a", "c", "t", "l", "y", "?">>
       ]
    )

\* Names every object literal inherits from Object.prototype: fallbacks[k]
\* is a truthy value for them although k is no key of the table.
ObjectPrototypeKeys == {STR_constructor}

\* const scamFallbacks = fallbacks[scamType] || fallbacks["unknown"];
\* return scamFallbacks[phase] || scamFallbacks["STALLING"];
getFallbackReply(scamType, turnCount) ==
    LET phase == getEngagementPhase(turnCount)
    IN  IF scamType \in DOMAIN fallbacks THEN fallbacks[scamType][phase]
        ELSE IF scamType \in ObjectPrototypeKeys THEN Undefined
        ELSE fallbacks[STR_unknown][phase]

\* The set of all utterances of the static fallback table
FallbackUtterances == {fallbacks[t][p] : t \in DOMAIN fallbacks, p \in Phases}

endsWithHook(reply) ==
    \/ EndsWith(reply, <<"?">>)
    \/ EndsWith(reply, <<".", ".", ".">>)
    \/ EndsWith(reply, <<Ellipsis>>)

\* conversationHistory.length > 0 ? Math.floor(length / 2) : (totalMessages || 0)
personaTurnCount(historyLength, totalMessages) ==
    IF historyLength > 0 THEN historyLength \div 2 ELSE totalMessages

\* The post-processing of a generator output (the try block after the await)
postProcessReply(scamType, turnCount, content) ==
    LET r1 == Trim(content)
        r2 == Trim(StripWrappingQuotes(r1))
        r3 == Trim(StripLeadingPunctuation(r2))
        r4 == Capitalize(r3)
        r5 == IF Len(r4) > MAX_REPLY_LENGTH
              THEN TruncateAtSentence(r4, MAX_REPLY_LENGTH)
              ELSE r4
    IN  IF Len(r4) < MIN_REPLY_LENGTH THEN getFallbackReply(scamType, turnCount)
        ELSE IF endsWithHook(r5) THEN r5
        ELSE r5 \o hooks[(turnCount % Len(hooks)) + 1]

\* generatePersonaReply: `outcome` is what the generator call settles to,
\*   [kind |-> "text", content |-> s]  the completion's message content
\*   [kind |-> "error"]                the call throws, or the response has
\*                                     no usable content (a TypeError)
\* totalAtCall / totalAtCatch are sessionData.totalMessages when the function
\* is entered and when the catch block runs (sessionData is a live object).
generatePersonaReply(scamType, historyLength, totalAtCall, totalAtCatch, outcome) ==
    IF outcome.kind = "text"
    THEN postProcessReply(scamType, personaTurnCount(historyLength, totalAtCall),
                          outcome.content)
    ELSE getFallbackReply(scamType, totalAtCatch)

(***************************************************************************)
(* JavaScript arrays and objects                                           *)
(*   an array is a sequence; an object is a function from its own keys;    *)
(*   { ...a, ...b } is  b @@ a  (the later spread wins)                    *)
(***************************************************************************)
Contains(arr, v) == \E i \in 1..Len(arr) : arr[i] = v

\* [...new Set(arr)]: first occurrences, in insertion order
RECURSIVE Dedupe(_)
Dedupe(arr) ==
    IF arr = <<>> THEN <<>>
    ELSE LET rest == Dedupe(Front(arr))
         IN  IF Contains(rest, Last(arr)) THEN rest ELSE Append(rest, Last(arr))

\* arr.map(f)
Map(f(_), arr) == [i \in 1..Len(arr) |-> f(arr[i])]

\* the truthiness of a string value: only "" is falsy
Truthy(v) == v # <<>>

EmptyObject == [k \in {} |-> <<>>]

Digit == <<"0", "1", "2", "3", "4", "5", "6", "7", "8", "9">>

\* the decimal text of a natural number, as template literals print it
RECURSIVE NumberToString(_)
NumberToString(n) ==
    IF n < 10 THEN <<Digit[n + 1]>>
    ELSE NumberToString(n \div 10) \o <<Digit[(n % 10) + 1]>>

(***************************************************************************)
(* Extraction service (src/services/extractionService.js, lines 1-221)     *)
(***************************************************************************)
RECURSIVE RemoveChars(_, _)
RemoveChars(s, drop) ==
    IF s = <<>> THEN <<>>
    ELSE IF Head(s) \in drop THEN RemoveChars(Tail(s), drop)
    ELSE <<Head(s)>> \o RemoveChars(Tail(s), drop)

StartsWith(s, prefix) ==
    Len(s) >= Len(prefix) /\ SubSeq(s, 1, Len(prefix)) = prefix

\* phone.replace(/[\s\-().]/g, "") and the three Indian-number rules
normalizePhone(phone) ==
    LET digits == RemoveChars(phone, Whitespace \cup {"-", "(", ")", "."})
    IN  IF StartsWith(digits, <<"+", "9", "1">>) /\ Len(digits) = 13 THEN digits
        ELSE IF StartsWith(digits, <<"9", "1">>) /\ Len(digits) = 12 THEN <<"+">> \o digits
        ELSE IF Len(digits) = 10 /\ Head(digits) \in {"6", "7", "8", "9"}
             THEN <<"+", "9", "1">> \o digits
        ELSE digits

ToLowerCaseChar(c) ==
    IF \E i \in 1..Len(UpperCase) : UpperCase[i] = c
    THEN LowerCase[CHOOSE i \in 1..Len(UpperCase) : UpperCase[i] = c]
    ELSE c

\* String.prototype.toLowerCase
ToLowerCase(s) == [i \in 1..Len(s) |-> ToLowerCaseChar(s[i])]

\* link.trim().replace(/[;,]$/, "").toLowerCase()
normalizeLink(link) ==
    LET t == Trim(link)
        u == IF t # <<>> /\ Last(t) \in {";", ","} THEN Front(t) ELSE t
    IN  ToLowerCase(u)

\* email.trim().toLowerCase()
normalizeEmail(email) == ToLowerCase(Trim(email))

\* the characters of the classes used by the regular expressions of
\* extractWithRegex
Letters == {LowerCase[i] : i \in 1..Len(LowerCase)} \cup {UpperCase[i] : i \in 1..Len(UpperCase)}

Alphanumerics == Letters \cup {Digit[i] : i \in 1..Len(Digit)}

\* [a-zA-Z0-9._\-+]
UpiLocalChars == Alphanumerics \cup {".", "_", "-", "+"}

\* [a-zA-Z0-9._%+\-]
EmailLocalChars == Alphanumerics \cup {".", "_", "%", "+", "-"}

\* [a-zA-Z0-9.\-]
EmailDomainChars == Alphanumerics \cup {".", "-"}

\* the first index of the longest run of characters of `class` that ends
\* at index `last` (last + 1 when text[last] is not in the class)
RECURSIVE RunStart(_, _, _)
RunStart(text, last, class) ==
    IF last >= 1 /\ text[last] \in class THEN RunStart(text, last - 1, class)
    ELSE last + 1

\* the last index of the longest run of characters of `class` that starts
\* at index `first` (first - 1 when text[first] is not in the class)
RECURSIVE RunEnd(_, _, _)
RunEnd(text, first, class) ==
    IF first <= Len(text) /\ text[first] \in class THEN RunEnd(text, first + 1, class)
    ELSE first - 1

\* the index of the "@" of a text that holds exactly one
AtIndex(text) == CHOOSE p \in 1..Len(text) : text[p] = "@"

\* text.match(/[a-zA-Z0-9._\-+]{2,256}@[a-zA-Z]{2,64}/g) || [], for a text
\* with one "@" and fewer than 64 characters
matchUpiRegex(text) ==
    LET p     == AtIndex(text)
        first == RunStart(text, p - 1, UpiLocalChars)
        last  == RunEnd(text, p + 1, Letters)
    IN  IF p - first >= 2 /\ last - p >= 2 THEN <<SubSeq(text, first, last)>> ELSE <<>>

\* text.match(/[a-zA-Z0-9._%+\-]+@[a-zA-Z0-9.\-]+\.[a-zA-Z]{2,}/g) || [],
\* for a text with one "@": the domain run is taken whole and given back
\* up to its last "." that at least two letters follow
matchEmailRegex(text) ==
    LET p      == AtIndex(text)
        first  == RunStart(text, p - 1, EmailLocalChars)
        runEnd == RunEnd(text, p + 1, EmailDomainChars)
        dots   == {k \in (p + 2)..runEnd :
                      text[k] = "." /\ RunEnd(text, k + 1, Letters) - k >= 2}
    IN  IF p - first >= 1 /\ dots # {}
        THEN <<SubSeq(text, first, RunEnd(text, SetMax(dots) + 1, Letters))>>
        ELSE <<>>

\* pattern.test(s) for a pattern that is a plain word: s holds the word
IsSubstring(word, s) ==
    \E i \in 1..(Len(s) - Len(word) + 1) : SubSeq(s, i, i + Len(word) - 1) = word

CommonTLDs == {<<".", "c", "o", "m">>, <<".", "i", "n">>, <<".", "o", "r", "g">>, <<".", "n", "e", "t">>, <<".", "i", "o">>, <<".", "c", "o">>}

CommonEmailProviders == {<<"g", "m", "a", "i", "l">>, <<"y", "a", "h", "o", "o">>, <<"h", "o", "t", "m", "a", "i", "l">>, <<"o", "u", "t", "l", "o", "o", "k">>, <<"r", "e", "d", "i", "f", "f">>}

\* the filter of the UPI matches: u.split("@")[1] must neither end with a
\* common top-level domain nor hold the name of a common mail provider
isUpiId(u) ==
    LET afterAt       == SubSeq(u, AtIndex(u) + 1, Len(u))
        hasCommonTLD  == \E tld \in CommonTLDs : EndsWith(ToLowerCase(afterAt), tld)
        isCommonEmail == \E name \in CommonEmailProviders :
                             IsSubstring(name, ToLowerCase(afterAt))
    IN  ~hasCommonTLD /\ ~isCommonEmail

\* the phoneNumbers, upiIds, emailAddresses and bankAccounts members of
\* extractWithRegex(text), for a text with at most one "@" and at most one
\* run of digits, of 18 digits at most:
\*   /\+?\d[\d\s\-().]{7,14}\d/g matches the first 16 digits at most of a run
\*     of 9 digits or more (what follows the run holds no digit to end on);
\*   /\b\d{11,18}\b/g matches the run when it has 11 to 18 digits and no
\*     word character touches it;
\*   an account is kept unless the digits of a phone number include it.
extractWithRegex(text) ==
    LET digits     == {Digit[i] : i \in 1..Len(Digit)}
        hasAt      == Contains(text, "@")
        upis       == IF hasAt THEN matchUpiRegex(text) ELSE <<>>
        emails     == IF hasAt THEN matchEmailRegex(text) ELSE <<>>
        hasDigit   == \E k \in 1..Len(text) : text[k] \in digits
        first      == CHOOSE k \in 1..Len(text) :
                         /\ text[k] \in digits
                         /\ \A m \in 1..(k - 1) : text[m] \notin digits
        last       == RunEnd(text, first, digits)
        n          == last - first + 1
        phones     == IF hasDigit /\ n >= 9
                      THEN <<SubSeq(text, first, first + (IF n > 16 THEN 16 ELSE n) - 1)>>
                      ELSE <<>>
        standalone == /\ first = 1 \/ text[first - 1] \notin Alphanumerics \cup {"_"}
                      /\ last = Len(text) \/ text[last + 1] \notin Alphanumerics \cup {"_"}
        potentialAccounts ==
                      IF hasDigit /\ n >= 11 /\ n <= 18 /\ standalone
                      THEN <<SubSeq(text, first, last)>> ELSE <<>>
        phoneNumbers == Dedupe([i \in 1..Len(phones) |-> normalizePhone(phones[i])])
        isPhone(a) == \E i \in 1..Len(phoneNumbers) :
                         IsSubstring(a, SelectSeq(phoneNumbers[i], LAMBDA c : c \in digits))
    IN  [ phoneNumbers   |-> phoneNumbers
        , upiIds         |-> SelectSeq(upis, isUpiId)
        , emailAddresses |-> [i \in 1..Len(emails) |-> normalizeEmail(emails[i])]
        , bankAccounts   |-> SelectSeq(potentialAccounts, LAMBDA a : ~isPhone(a)) ]

\* the normalizer extractIntelligence applies to the values of a field
normalizerOf(field, v) ==
    IF field = "phoneNumbers" THEN normalizePhone(v)
    ELSE IF field = "phishingLinks" THEN normalizeLink(v)
    ELSE IF field = "emailAddresses" THEN normalizeEmail(v)
    ELSE v

ExtractionFields ==
    <<"phoneNumbers", "upiIds", "bankAccounts", "ifscCodes", "phishingLinks",
      "emailAddresses", "orgNames", "suspiciousKeywords">>

\* const extracted = { phoneNumbers: [], ... }
EmptyExtraction == [f \in {ExtractionFields[i] : i \in 1..Len(ExtractionFields)} |-> <<>>]

\* canonicalKeys: the aliases of each canonical field, in the order tried
canonicalKeys ==
    [ phoneNumbers       |-> <<"phoneNumbers", "phone_numbers", "phones">>
    , upiIds             |-> <<"upiIds", "upi_ids", "upis", "upiID", "upiId">>
    , bankAccounts       |-> <<"bankAccounts", "bank_accounts", "accounts">>
    , ifscCodes          |-> <<"ifscCodes", "ifsc_codes", "ifsc">>
    , phishingLinks      |-> <<"phishingLinks", "phishing_links", "links", "urls">>
    , emailAddresses     |-> <<"emailAddresses", "email_addresses", "emails">>
    , orgNames           |-> <<"orgNames", "org_names", "organizations", "orggNames">>
    , suspiciousKeywords |-> <<"suspiciousKeywords", "suspicious_keywords", "keywords",
                               "susspiciousKeywords">>
    ]

\* aiResult[alias].filter(v => v && typeof v === "string" && v.trim().length > 0)
cleanValues(arr) == SelectSeq(arr, LAMBDA v : Truthy(v) /\ Len(Trim(v)) > 0)

\* aliases.forEach(alias => ...) for one canonical field, from alias k on
RECURSIVE mergeAliases(_, _, _, _)
mergeAliases(acc, aliases, k, aiResult) ==
    IF k > Len(aliases) THEN acc
    ELSE mergeAliases(
           IF aliases[k] \in DOMAIN aiResult
           THEN Dedupe(acc \o cleanValues(aiResult[aliases[k]]))
           ELSE acc,
           aliases, k + 1, aiResult)

\* extractIntelligence(message, conversationHistory)
\*   regexExtracted : what extractWithRegex(message) returns for the message
\*   ai             : how the extractor call settles,
\*                      [kind |-> "json", result |-> object]  parsed aiResult
\*                      [kind |-> "error"]  throw, timeout or unparsable text
extractIntelligence(regexExtracted, ai) ==
    LET fromAi == [f \in DOMAIN EmptyExtraction |->
                     IF ai.kind = "json"
                     THEN mergeAliases(<<>>, canonicalKeys[f], 1, ai.result)
                     ELSE <<>>]
        merged == [f \in DOMAIN EmptyExtraction |->
                     IF Len(regexExtracted[f]) > 0
                     THEN Dedupe(fromAi[f] \o regexExtracted[f])
                     ELSE fromAi[f]]
    IN  [merged EXCEPT
           !.phoneNumbers   = Dedupe(Map(normalizePhone, merged.phoneNumbers)),
           !.phishingLinks  = Dedupe(Map(normalizeLink, merged.phishingLinks)),
           !.emailAddresses = Dedupe(Map(normalizeEmail, merged.emailAddresses))]

(***************************************************************************)
(* Detection service (src/unnamed/part_001)                                *)
(*   A message is described by the patterns of the code that match it:     *)
(*   redFlags  - indices (1..14) of the computeRedFlagScore patterns       *)
(*   highRisk  - whether the highRiskKeyword pattern matches               *)
(*   typeHints - which patterns of the scamType chain match                *)
(***************************************************************************)
patternWeights == <<2, 3, 3, 3, 2, 2, 2, 2, 1, 2, 2, 2, 2, 3>>

RECURSIVE SumWeights(_)
SumWeights(S) ==
    IF S = {} THEN 0
    ELSE LET p == CHOOSE x \in S : TRUE IN patternWeights[p] + SumWeights(S \ {p})

computeRedFlagScore(message) == SumWeights(message.redFlags)

\* the if / else-if chain that picks the deterministic scamType
deterministicScamType(message) ==
    IF "upi" \in message.typeHints THEN STR_upi_fraud
    ELSE IF "bank" \in message.typeHints THEN STR_bank_fraud
    ELSE IF "phishing" \in message.typeHints THEN STR_phishing
    ELSE IF "lottery" \in message.typeHints THEN STR_lottery
    ELSE IF "kyc" \in message.typeHints THEN STR_kyc_scam
    ELSE IF "investment" \in message.typeHints THEN STR_investment
    ELSE IF "courier" \in message.typeHints THEN STR_courier
    ELSE IF "job" \in message.typeHints THEN STR_job_scam
    ELSE STR_unknown

\* `redFlagScore:${redFlagScore}`
redFlagSignal(score) ==
    <<"r", "e", "d", "F", "l", "a", "g", "S", "c", "o", "r", "e", ":">> \o NumberToString(score)

\* runLLMDetection's validation of the parsed JSON (fields of the wrong type
\* are modelled as absent)
validateLLMDetection(raw) ==
    [ isScam     |-> IF "isScam" \in DOMAIN raw THEN raw.isScam ELSE FALSE
    , scamType   |-> IF "scamType" \in DOMAIN raw THEN raw.scamType ELSE STR_unknown
    , confidence |-> IF "confidence" \in DOMAIN raw THEN raw.confidence ELSE 50
    , signals    |-> IF "signals" \in DOMAIN raw THEN raw.signals ELSE <<>>
    ]

IntMax(a, b) == IF a >= b THEN a ELSE b

\* a detection that lets the classifier overrule the red-flag score
detectScamTrustingClassifier(message, llm) ==
    LET redFlagScore == computeRedFlagScore(message)
        llmResult    == validateLLMDetection(llm.raw)
    IN  IF llm.kind = "json"
        THEN [ isScam       |-> llmResult.isScam
             , scamType     |-> llmResult.scamType
             , confidence   |-> llmResult.confidence
             , signals      |-> llmResult.signals
             , redFlagScore |-> redFlagScore ]
        ELSE [ isScam       |-> TRUE
             , scamType     |-> STR_unknown
             , confidence   |-> 50
             , signals      |-> <<STR_detection_fallback>>
             , redFlagScore |-> redFlagScore ]

\* detectScam(message, conversationHistory); confidence in hundredths
\*   llm : how runLLMDetection settles,
\*           [kind |-> "json", raw |-> object]   parsed model output
\*           [kind |-> "error"]  throw, 8 s timeout or unparsable text
detectScam(message, llm) ==
    LET redFlagScore == computeRedFlagScore(message)
        scamType     == deterministicScamType(message)
        confidence   == IF redFlagScore >= 8 THEN 95 ELSE 85
        llmResult    == validateLLMDetection(llm.raw)
    IN  IF redFlagScore >= 4 \/ message.highRisk
        THEN IF llm.kind = "json"
             THEN [ isScam       |-> TRUE
                  , scamType     |-> IF llmResult.scamType # STR_unknown
                                     THEN llmResult.scamType ELSE scamType
                  , confidence   |-> IntMax(confidence, llmResult.confidence)
                  , signals      |-> Dedupe(llmResult.signals \o <<redFlagSignal(redFlagScore)>>)
                  , redFlagScore |-> redFlagScore ]
             ELSE [ isScam       |-> TRUE
                  , scamType     |-> scamType
                  , confidence   |-> confidence
                  , signals      |-> <<redFlagSignal(redFlagScore)>>
                  , redFlagScore |-> redFlagScore ]
        ELSE IF llm.kind = "json"
             THEN [ isScam       |-> llmResult.isScam
                  , scamType     |-> llmResult.scamType
                  , confidence   |-> llmResult.confidence
                  , signals      |-> llmResult.signals
                  , redFlagScore |-> redFlagScore ]
             ELSE [ isScam       |-> TRUE
                  , scamType     |-> STR_unknown
                  , confidence   |-> 50
                  , signals      |-> <<STR_detection_fallback>>
                  , redFlagScore |-> redFlagScore ]

(***************************************************************************)
(* Session service (src/services/sessionService.js, lines 1-125)           *)
(***************************************************************************)
\* null
Null == <<"<null>">>

ONE_HOUR == 3600000

CLEANUP_INTERVAL == 1800000

\* a new session that already counts one message
newSessionCounted(sessionId, t) ==
    [ sessionId          |-> sessionId
    , createdAt          |-> t
    , lastUpdated        |-> t
    , totalMessages      |-> 1
    , scamConfirmed      |-> FALSE
    , scamType           |-> Null
    , callbackSent       |-> FALSE
    , upiIds             |-> <<>>
    , phoneNumbers       |-> <<>>
    , phishingLinks      |-> <<>>
    , bankAccounts       |-> <<>>
    , emailAddresses     |-> <<>>
    , ifscCodes          |-> <<>>
    , orgNames           |-> <<>>
    , suspiciousKeywords |-> <<>>
    , tacticsObserved    |-> <<>>
    , conversationSummary |-> <<>>
    ]

newSession(sessionId, t) ==
    [ sessionId          |-> sessionId
    , createdAt          |-> t
    , lastUpdated        |-> t
    , totalMessages      |-> 0
    , scamConfirmed      |-> FALSE
    , scamType           |-> Null
    , callbackSent       |-> FALSE
    , upiIds             |-> <<>>
    , phoneNumbers       |-> <<>>
    , phishingLinks      |-> <<>>
    , bankAccounts       |-> <<>>
    , emailAddresses     |-> <<>>
    , ifscCodes          |-> <<>>
    , orgNames           |-> <<>>
    , suspiciousKeywords |-> <<>>
    , tacticsObserved    |-> <<>>
    , conversationSummary |-> <<>>
    ]

\* a lookup that also refreshes lastUpdated of the session it finds
getOrCreateSessionTouching(store, sessionId, t) ==
    [k \in DOMAIN store \cup {sessionId} |->
        IF k # sessionId THEN store[k]
        ELSE IF k \in DOMAIN store THEN [store[k] EXCEPT !.lastUpdated = t + 1]
        ELSE newSession(sessionId, t)]

\* a lookup that stamps createdAt anew on the session it finds
getOrCreateSessionRestamping(store, sessionId, t) ==
    [k \in DOMAIN store \cup {sessionId} |->
        IF k # sessionId THEN store[k]
        ELSE IF k \in DOMAIN store THEN [store[k] EXCEPT !.createdAt = t]
        ELSE newSession(sessionId, t)]

\* getOrCreateSession: the store after the call (the session is store[sessionId])
getOrCreateSession(store, sessionId, t) ==
    IF sessionId \in DOMAIN store THEN store
    ELSE [k \in DOMAIN store \cup {sessionId} |->
            IF k = sessionId THEN newSession(sessionId, t) ELSE store[k]]

arrayFields ==
    {"upiIds", "phoneNumbers", "phishingLinks", "bankAccounts", "emailAddresses",
     "ifscCodes", "orgNames", "suspiciousKeywords", "tacticsObserved"}

\* a merge that pushes every truthy value, without looking for it first
pushEvery(arr, vals) == arr \o SelectSeq(vals, Truthy)

\* updates[field].forEach(val => { if (val && !session[field].includes(val)) push })
RECURSIVE pushNew(_, _)
\* a merge that keeps only the values of the update
pushReplacing(arr, vals) == SelectSeq(vals, Truthy)

pushNew(arr, vals) ==
    IF vals = <<>> THEN arr
    ELSE pushNew(IF Truthy(Head(vals)) /\ ~Contains(arr, Head(vals))
                 THEN Append(arr, Head(vals)) ELSE arr,
                 Tail(vals))

\* updateSession(sessionId, updates): the store after the call
\* an update that stamps every stored session, not only the one it is for
updateSessionStampingAll(store, sessionId, updates, t) ==
    [k \in DOMAIN store \cup {sessionId} |->
        IF k \in DOMAIN store
        THEN [store[k] EXCEPT !.lastUpdated = t + 1, !.totalMessages = @ + 1]
        ELSE newSession(sessionId, t)]

updateSession(store, sessionId, updates, t) ==
    LET st      == getOrCreateSession(store, sessionId, t)
        session == st[sessionId]
        updated ==
          [k \in DOMAIN session |->
             IF k \in arrayFields
             THEN IF k \in DOMAIN updates THEN pushNew(session[k], updates[k])
                  ELSE session[k]
             ELSE IF k = "scamConfirmed" /\ "scamConfirmed" \in DOMAIN updates
             THEN updates.scamConfirmed
             ELSE IF k = "scamType" /\ "scamType" \in DOMAIN updates
                                    /\ Truthy(updates.scamType)
             THEN updates.scamType
             ELSE IF k = "callbackSent" /\ "callbackSent" \in DOMAIN updates
             THEN updates.callbackSent
             ELSE IF k = "conversationSummary" /\ "conversationSummary" \in DOMAIN updates
                                               /\ Truthy(updates.conversationSummary)
             THEN updates.conversationSummary
             ELSE IF k = "totalMessages" THEN session.totalMessages + 1
             ELSE IF k = "lastUpdated" THEN t
             ELSE session[k]]
    IN  [st EXCEPT ![sessionId] = updated]

NEAR_END_MESSAGES == 8

shouldTriggerCallback(session) ==
    IF session.callbackSent THEN FALSE
    ELSE IF ~session.scamConfirmed THEN FALSE
    ELSE session.totalMessages >= NEAR_END_MESSAGES

\* cleanupSessions: the store after one run of the sweep at time t
\* a sweep that also removes a session idle for exactly the limit
cleanupSessionsInclusive(store, t) ==
    [k \in {id \in DOMAIN store : ~(t - store[id].lastUpdated >= ONE_HOUR)} |-> store[k]]

cleanupSessions(store, t) ==
    [k \in {id \in DOMAIN store : ~(t - store[id].lastUpdated > ONE_HOUR)} |-> store[k]]

(***************************************************************************)
(* Callback service (src/unnamed/part_003)                                 *)
(***************************************************************************)
MAX_RETRIES == 3

\* a retry loop that tries once more after the last allowed attempt
sendFinalCallbackAttemptOnceMore(attempt, accepted) ==
    IF accepted
    THEN [returned |-> TRUE, value |-> [success |-> TRUE]]
    ELSE IF attempt <= MAX_RETRIES
    THEN [returned |-> FALSE]
    ELSE [returned |-> TRUE, value |-> [success |-> FALSE]]

\* One pass of the retry loop of sendFinalCallback: the attempt is accepted
\* (axios.post resolves) and the function returns success, or it is not
\* (axios.post rejects: refusal, network error, timeout; the catch block takes
\* the error) and the loop goes on, or ends with the failure value.
sendFinalCallbackAttempt(attempt, accepted) ==
    IF accepted
    THEN [returned |-> TRUE, value |-> [success |-> TRUE]]
    ELSE IF attempt < MAX_RETRIES
    THEN [returned |-> FALSE]
    ELSE [returned |-> TRUE, value |-> [success |-> FALSE]]

\* The payload built at the start of sendFinalCallback.  Its scalar members
\* are copied from the session; agentNotes is a rendering of the same fields.
buildPayload(session) ==
    [ sessionId     |-> session.sessionId
    , status        |-> "completed"
    , scamDetected  |-> session.scamConfirmed
    , scamType      |-> IF Truthy(session.scamType) /\ session.scamType # Null
                        THEN session.scamType ELSE STR_unknown
    , totalMessagesExchanged |-> session.totalMessages
    , extractedIntelligence |->
        [ phoneNumbers       |-> session.phoneNumbers
        , bankAccounts       |-> session.bankAccounts
        , upiIds             |-> session.upiIds
        , phishingLinks      |-> session.phishingLinks
        , emailAddresses     |-> session.emailAddresses
        , ifscCodes          |-> session.ifscCodes
        , suspiciousKeywords |-> session.suspiciousKeywords ]
    , engagementMetrics |->
        [ totalMessagesExchanged    |-> session.totalMessages
        , engagementDurationSeconds |-> (session.lastUpdated - session.createdAt) \div 1000 ]
    ]

(***************************************************************************)
(* Route (src/unnamed/part_002, lines 134-253)                             *)
(***************************************************************************)
NEAR_END_TURN == 8

DEFINITELY_END_TURN == 10

\* a route that copies every verdict into the session, the clean ones too
turnUpdatesCopyingVerdict(detection, extracted) ==
    extracted
    @@ [redFlagScore |-> detection.redFlagScore]
    @@ (IF detection.isScam
        THEN [ scamConfirmed      |-> TRUE
             , scamType           |-> detection.scamType
             , suspiciousKeywords |-> detection.signals
             , tacticsObserved    |-> <<detection.scamType>> ]
        ELSE [ scamConfirmed      |-> FALSE ])

\* the object literal passed to updateSession after detection and extraction
turnUpdates(detection, extracted) ==
    extracted
    @@ [redFlagScore |-> detection.redFlagScore]
    @@ (IF detection.isScam
        THEN [ scamConfirmed      |-> TRUE
             , scamType           |-> detection.scamType
             , suspiciousKeywords |-> detection.signals
             , tacticsObserved    |-> <<detection.scamType>> ]
        ELSE EmptyObject)

\* Math.floor(conversationHistory.length / 2) + 1
currentTurn(historyLength) == (historyLength \div 2) + 1

\* shouldFire without the callbackSent test of its last disjunct
shouldFireAtEndRegardless(updatedSession, historyLength) ==
    LET isNearEnd       == currentTurn(historyLength) >= NEAR_END_TURN
        isDefinitelyEnd == currentTurn(historyLength) >= DEFINITELY_END_TURN
    IN  \/ shouldTriggerCallback(updatedSession)
        \/ (isNearEnd /\ updatedSession.scamConfirmed /\ ~updatedSession.callbackSent)
        \/ isDefinitelyEnd

shouldFire(updatedSession, historyLength) ==
    LET isNearEnd       == currentTurn(historyLength) >= NEAR_END_TURN
        isDefinitelyEnd == currentTurn(historyLength) >= DEFINITELY_END_TURN
    IN  \/ shouldTriggerCallback(updatedSession)
        \/ (isNearEnd /\ updatedSession.scamConfirmed /\ ~updatedSession.callbackSent)
        \/ (isDefinitelyEnd /\ ~updatedSession.callbackSent)

\* router.use: the middleware in front of the route.  expectedKey is
\* process.env.API_KEY (Undefined when the variable is not set), providedKey
\* the x-api-key header (Undefined when absent).
apiKeyMiddleware(expectedKey, providedKey) ==
    IF expectedKey \in {Undefined, <<>>} \/ providedKey = expectedKey
    THEN "next"
    ELSE "401"

INVALID_REQUEST_REPLY ==
    <<"S", "o", "r", "r", "y", ",", " ", "I", " ", "d", "i", "d", "n", "'", "t", " ", "u", "n", "d", "e", "r", "s", "t", "a", "n", "d", " ", "t", "h", "a", "t", ".", " ", "C", "o", "u", "l", "d", " ", "y", "o", "u", " ", "r", "e", "p", "e", "a", "t", "?">>

ROUTE_ERROR_REPLY ==
    <<"S", "o", "r", "r", "y", ",", " ", "c", "o", "u", "l", "d", " ", "y", "o", "u", " ", "r", "e", "p", "e", "a", "t", " ", "t", "h", "a", "t", "?">>

\* session.scamType || "unknown"
scamTypeOrUnknown(session) ==
    IF session.scamType # Null /\ Truthy(session.scamType) THEN session.scamType
    ELSE STR_unknown

(***************************************************************************)
(* Bounds of the orchestrator specifications                               *)
(***************************************************************************)
\* requests received in one run of Spec
MaxRequests == 2

\* requests in flight (reply pending or background task running) at once
MaxInFlight == 2

\* length of the arrays of an update drawn for FunctionSpec
MaxLen == 2

\* largest turn index drawn for FunctionSpec
MaxTurnIndex == 12

\* runs of the cleanup timer in one run of SweepSpec
MaxTicks == 4

\* requests received in one run of LongSpec (one conversation, turn by turn)
LongRequests == 10

(***************************************************************************)
(* Inputs                                                                  *)
(***************************************************************************)
SessionIds == {"s1", "s2"}

STR_urgent == <<"u", "r", "g", "e", "n", "t">>

STR_blocked == <<"b", "l", "o", "c", "k", "e", "d">>

STR_OTP == <<"O", "T", "P">>

\* "hello": no pattern of the detection or extraction code matches
MSG_HELLO ==
    [ id |-> "hello", redFlags |-> {}, highRisk |-> FALSE, typeHints |-> {}
    , regex |-> EmptyExtraction ]

\* "URGENT: your account will be blocked, share OTP now"
\*   red-flag patterns 1 (urgent) and 2 (\botp\b); highRiskKeyword (\botp\b);
\*   type chain: /otp|account|bank|ifsc/; keywords urgent, blocked, OTP
MSG_OTP ==
    [ id |-> "otp", redFlags |-> {1, 2}, highRisk |-> TRUE, typeHints |-> {"bank"}
    , regex |-> [EmptyExtraction EXCEPT
                   !.suspiciousKeywords = <<STR_urgent, STR_blocked, STR_OTP>>] ]

Messages == {MSG_HELLO, MSG_OTP}

\* conversationHistory.length of a request: none, and histories that imply
\* turn 4, turn 8 and turn 10
HistoryLengths == {0, 6, 14, 18}

\* the two extremes, for the runs that interleave requests
ShortOrFullHistory == {0, 18}

PHONE_TEXT == <<"9", "8", "7", "6", "5", " ", "4", "3", "2", "1", "0">>

GOOD_REPLY_TEXT ==
    <<"O", "h", " ", "n", "o", ",", " ", "w", "h", "i", "c", "h", " ", "b", "a", "n", "k", " ", "a", "r", "e", " ", "y", "o", "u", " ", "c", "a", "l", "l", "i", "n", "g", " ", "f", "r", "o", "m">>

SHORT_REPLY_TEXT == <<"O", "k", ".">>

Error == [kind |-> "error"]

\* what the persona generator call may settle to (it may also never settle)
PersonaOutcomes ==
    { Error
    , [kind |-> "text", content |-> GOOD_REPLY_TEXT]
    , [kind |-> "text", content |-> SHORT_REPLY_TEXT] }

\* what the classifier call may settle to: a failure, or JSON of the right
\* types (the scam type is any string: only its type is validated)
NOT_SCAM_VERDICT ==
    [kind |-> "json", raw |-> [isScam |-> FALSE, scamType |-> STR_unknown,
                               confidence |-> 20, signals |-> <<>>]]

ODD_TYPE_VERDICT ==
    [kind |-> "json", raw |-> [isScam |-> TRUE, scamType |-> STR_constructor,
                               confidence |-> 90, signals |-> <<>>]]

ClassifierOutcomes == {Error, NOT_SCAM_VERDICT, ODD_TYPE_VERDICT}

\* what the extractor call may settle to
ExtractorOutcomes ==
    { Error
    , [kind |-> "json", result |-> [phones |-> <<PHONE_TEXT>>]] }

\* request bodies the route answers without running a turn
\*   the first three fail the validation of line 168; for the others an
\*   exception is thrown before getOrCreateSession and caught at line 244
MalformedBodies ==
    {"no_sessionId", "no_message", "no_text", "no_body", "text_not_string", "history_null"}

(***************************************************************************)
(* State                                                                   *)
(***************************************************************************)
VARIABLES
    sessions,      \* the Map `sessions`: session id -> session object
    now,           \* Date.now(), in ms; advances with the cleanup timer
    ticks,         \* runs of the cleanup timer so far
    requests,      \* slot -> request being handled / its background task
    received,      \* number of requests received so far
    processed,     \* session id -> inbound messages merged into the session
    callbacks,     \* session id -> invocations of sendFinalCallback
    lastVerdict,   \* session id -> detection.isScam of the last message merged
    evicted,       \* session id -> the sweep has removed a session of this id
    personaCall,   \* reply specification: the arguments of one call
    personaReply,  \* reply specification: what the call returned
    call,          \* function specification: a function and its arguments
    result         \* function specification: what the function returned

vars == <<sessions, now, ticks, requests, received, processed, callbacks,
          lastVerdict, evicted, personaCall, personaReply, call, result>>

orchestratorVars ==
    <<sessions, now, ticks, requests, received, processed, callbacks, lastVerdict,
      evicted>>

personaVars == <<personaCall, personaReply>>

functionVars == <<call, result>>

Idle == [pc |-> "idle"]

Slots == 1..MaxInFlight

Busy == {t \in Slots : requests[t].pc # "idle"}

NoCall == [kind |-> "none"]

Pending == <<"<pending>">>

NotReturned == [done |-> FALSE]

Init ==
    /\ sessions = EmptyObject
    /\ now = 0
    /\ ticks = 0
    /\ requests = [t \in Slots |-> Idle]
    /\ received = 0
    /\ processed = [s \in SessionIds |-> 0]
    /\ callbacks = [s \in SessionIds |-> 0]
    /\ lastVerdict = [s \in SessionIds |-> "none"]
    /\ evicted = [s \in SessionIds |-> FALSE]
    /\ personaCall = NoCall
    /\ personaReply = Pending
    /\ call = NoCall
    /\ result = NotReturned

\* the session object a request holds a reference to: the stored object, or
\* the object as it was when the sweep removed it from the store
Deref(ref, sessionId) == IF ref.live THEN sessions[sessionId] ELSE ref.detached

(***************************************************************************)
(* router.post("/") up to the await of generatePersonaReply                *)
(***************************************************************************)
Receive(sessionId, message, historyLength) ==
    LET t  == CHOOSE x \in Slots \ Busy : \A y \in Slots \ Busy : x <= y
        st == getOrCreateSession(sessions, sessionId, now)
    IN  /\ Slots \ Busy # {}
        /\ sessions' = st
        /\ requests' = [requests EXCEPT ![t] =
              [ pc            |-> "persona"
              , id            |-> received + 1
              , sessionId     |-> sessionId
              , message       |-> message
              , historyLength |-> historyLength
              , scamType      |-> scamTypeOrUnknown(st[sessionId])
              , totalAtCall   |-> st[sessionId].totalMessages
              , ref           |-> [live |-> TRUE] ]]
        /\ received' = received + 1
        /\ UNCHANGED <<now, ticks, processed, callbacks, lastVerdict, evicted, personaVars, functionVars>>

\* a request reaches the router: the middleware reads process.env.API_KEY
\* and the header, and either hands the request to the route or answers 401
Arrive(expectedKey, providedKey, sessionId, message, historyLength) ==
    IF apiKeyMiddleware(expectedKey, providedKey) = "next"
    THEN Receive(sessionId, message, historyLength)
    ELSE LET t == CHOOSE x \in Slots \ Busy : \A y \in Slots \ Busy : x <= y
         IN  /\ Slots \ Busy # {}
             /\ requests' = [requests EXCEPT ![t] =
                   [ pc         |-> "responded"
                   , id         |-> received + 1
                   , background |-> FALSE
                   , malformed  |-> FALSE
                   , response   |-> [ status |-> 401
                                    , body   |-> [error |-> "Unauthorized: Invalid API key"] ] ]]
             /\ received' = received + 1
             /\ UNCHANGED <<sessions, now, ticks, processed, callbacks, lastVerdict, evicted, personaVars, functionVars>>

\* a request whose body fails validation or makes the handler throw before
\* the session is looked up: answered at once, nothing else happens
\* a handler that looks a session up before it validates the body
ReceiveMalformedAfterLookup(body) ==
    LET t == CHOOSE x \in Slots \ Busy : \A y \in Slots \ Busy : x <= y
    IN  /\ Slots \ Busy # {}
        /\ sessions' = getOrCreateSession(sessions, "s1", now)
        /\ requests' = [requests EXCEPT ![t] =
              [ pc         |-> "responded"
              , id         |-> received + 1
              , background |-> FALSE
              , malformed  |-> TRUE
              , response   |-> [ status |-> 200
                               , body   |-> [ status |-> "success"
                                            , reply  |-> INVALID_REQUEST_REPLY ] ] ]]
        /\ received' = received + 1
        /\ UNCHANGED <<now, ticks, processed, callbacks, lastVerdict, evicted, personaVars, functionVars>>

ReceiveMalformed(body) ==
    LET t == CHOOSE x \in Slots \ Busy : \A y \in Slots \ Busy : x <= y
    IN  /\ Slots \ Busy # {}
        /\ requests' = [requests EXCEPT ![t] =
              [ pc         |-> "responded"
              , id         |-> received + 1
              , background |-> FALSE
              , malformed  |-> TRUE
              , response   |-> [ status |-> 200
                               , body   |-> [ status |-> "success"
                                            , reply  |-> IF body \in {"no_sessionId", "no_message", "no_text"}
                                                         THEN INVALID_REQUEST_REPLY
                                                         ELSE ROUTE_ERROR_REPLY ] ] ]]
        /\ received' = received + 1
        /\ UNCHANGED <<sessions, now, ticks, processed, callbacks, lastVerdict, evicted, personaVars, functionVars>>

\* the generator call settles; the reply is post-processed and sent.
\* An undefined reply is serialised as a body without `reply`; reply.slice
\* then throws, the catch block's res.json throws too (headers already
\* sent), and the background task is never scheduled.
PersonaSettle(t, outcome) ==
    LET r     == requests[t]
        reply == generatePersonaReply(r.scamType, r.historyLength, r.totalAtCall,
                                      Deref(r.ref, r.sessionId).totalMessages, outcome)
    IN  /\ r.pc = "persona"
        /\ requests' = [requests EXCEPT ![t] =
              [ pc            |-> "responded"
              , id            |-> r.id
              , background    |-> reply # Undefined
              , malformed     |-> FALSE
              , sessionId     |-> r.sessionId
              , message       |-> r.message
              , historyLength |-> r.historyLength
              , response      |-> [ status |-> 200
                                  , body   |-> IF reply # Undefined
                                               THEN [status |-> "success", reply |-> reply]
                                               ELSE [status |-> "success"] ] ]]
        /\ UNCHANGED <<sessions, now, ticks, received, processed, callbacks, lastVerdict, evicted, personaVars, functionVars>>

\* the handler of a request without background work is finished
CloseRequest(t) ==
    /\ requests[t].pc = "responded"
    /\ ~requests[t].background
    /\ requests' = [requests EXCEPT ![t] = Idle]
    /\ UNCHANGED <<sessions, now, ticks, received, processed, callbacks, lastVerdict, evicted, personaVars, functionVars>>

\* a background task whose two calls race no timer: it goes on only when
\* the classifier and the extractor have both answered
AnalysisSettleWithoutTimers(t, llm, ai) ==
    LET r              == requests[t]
        detection      == detectScam(r.message, llm)
        extracted      == extractIntelligence(r.message.regex, ai)
        updatedSession == sessions'[r.sessionId]
    IN  /\ llm.kind = "json"
        /\ ai.kind = "json"
        /\ r.pc = "responded"
        /\ r.background
        /\ \E updates \in {turnUpdates(detection, extracted)} :
              sessions' = updateSession(sessions, r.sessionId, updates, now)
        /\ processed' = [processed EXCEPT ![r.sessionId] = @ + 1]
        /\ lastVerdict' = [lastVerdict EXCEPT ![r.sessionId] =
                              IF detection.isScam THEN "scam" ELSE "clean"]
        /\ evicted' = evicted
        /\ IF shouldFire(updatedSession, r.historyLength)
           THEN /\ callbacks' = [callbacks EXCEPT ![r.sessionId] = @ + 1]
                /\ requests' = [requests EXCEPT ![t] =
                      [ pc        |-> "callback"
                      , sessionId |-> r.sessionId
                      , attempt   |-> 1
                      , payload   |-> buildPayload(updatedSession)
                      , ref       |-> [live |-> TRUE] ]]
           ELSE /\ callbacks' = callbacks
                /\ requests' = [requests EXCEPT ![t] = Idle]
        /\ UNCHANGED <<now, ticks, received, personaVars, functionVars>>

\* the setImmediate callback: detection and extraction settle, the session
\* is updated, the report condition is evaluated and, if it holds,
\* sendFinalCallback is called (payload built, first attempt under way)
AnalysisSettle(t, llm, ai) ==
    LET r              == requests[t]
        detection      == detectScam(r.message, llm)
        extracted      == extractIntelligence(r.message.regex, ai)
        updatedSession == sessions'[r.sessionId]
    IN  /\ r.pc = "responded"
        /\ r.background
        /\ \E updates \in {turnUpdates(detection, extracted)} :
              sessions' = updateSession(sessions, r.sessionId, updates, now)
        /\ processed' = [processed EXCEPT ![r.sessionId] = @ + 1]
        /\ lastVerdict' = [lastVerdict EXCEPT ![r.sessionId] =
                              IF detection.isScam THEN "scam" ELSE "clean"]
        /\ evicted' = evicted
        /\ IF shouldFire(updatedSession, r.historyLength)
           THEN /\ callbacks' = [callbacks EXCEPT ![r.sessionId] = @ + 1]
                /\ requests' = [requests EXCEPT ![t] =
                      [ pc        |-> "callback"
                      , sessionId |-> r.sessionId
                      , attempt   |-> 1
                      , payload   |-> buildPayload(updatedSession)
                      , ref       |-> [live |-> TRUE] ]]
           ELSE /\ callbacks' = callbacks
                /\ requests' = [requests EXCEPT ![t] = Idle]
        /\ UNCHANGED <<now, ticks, received, personaVars, functionVars>>

\* the body axios.post sends at an attempt: the payload object is built once,
\* its scalars and agentNotes hold the values of that moment, and its arrays
\* are the session's own array objects, serialised as they are at the attempt
serializedPayload(r) ==
    [r.payload EXCEPT !.extractedIntelligence =
        buildPayload(Deref(r.ref, r.sessionId)).extractedIntelligence]

\* one attempt of sendFinalCallback settles (accepted, or failed / timed
\* out); after the last one the function returns and the route records
\* the report as sent
CallbackAttempt(t, accepted) ==
    LET r == requests[t]
    IN  /\ r.pc = "callback"
        /\ IF ~sendFinalCallbackAttempt(r.attempt, accepted).returned
           THEN /\ requests' = [requests EXCEPT ![t].attempt = @ + 1]
                /\ sessions' = sessions
           ELSE /\ requests' = [requests EXCEPT ![t] = Idle]
                /\ sessions' = updateSession(sessions, r.sessionId,
                                             [callbackSent |-> TRUE], now)
        /\ UNCHANGED <<now, ticks, received, processed, callbacks, lastVerdict, evicted, personaVars, functionVars>>

\* setInterval(cleanupSessions, 30 * 60 * 1000): 30 minutes pass and the
\* sweep runs.  A request that holds a reference to a removed session
\* keeps the removed object.
CleanupTimer ==
    LET t       == now + CLEANUP_INTERVAL
        st      == cleanupSessions(sessions, t)
        removed == DOMAIN sessions \ DOMAIN st
    IN  /\ now' = t
        /\ ticks' = ticks + 1
        /\ sessions' = st
        /\ requests' = [s \in Slots |->
              IF /\ requests[s].pc \in {"persona", "callback"}
                 /\ requests[s].ref.live
                 /\ requests[s].sessionId \in removed
              THEN [requests[s] EXCEPT !.ref = [live |-> FALSE, detached |-> sessions[requests[s].sessionId]]]
              ELSE requests[s]]
        /\ processed' = [s \in SessionIds |-> IF s \in removed THEN 0 ELSE processed[s]]
        /\ callbacks' = [s \in SessionIds |-> IF s \in removed THEN 0 ELSE callbacks[s]]
        /\ lastVerdict' = [s \in SessionIds |-> IF s \in removed THEN "none" ELSE lastVerdict[s]]
        /\ evicted' = [s \in SessionIds |-> evicted[s] \/ s \in removed]
        /\ UNCHANGED <<received, personaVars, functionVars>>

(***************************************************************************)
(* Spec: up to MaxInFlight requests are handled at once, for two sessions; *)
(* their reply steps and background tasks interleave freely.  No time      *)
(* passes (the cleanup timer does not run), the extractor call fails (the  *)
(* regular expressions alone supply the extraction) and the classifier     *)
(* answers.                                                                *)
(***************************************************************************)
Next ==
    \/ /\ received < MaxRequests
       /\ \E s \in SessionIds, m \in Messages, h \in ShortOrFullHistory : Receive(s, m, h)
    \/ /\ received < MaxRequests
       /\ \E b \in MalformedBodies : ReceiveMalformed(b)
    \/ \E t \in Slots, o \in {Error, [kind |-> "text", content |-> GOOD_REPLY_TEXT]} :
          PersonaSettle(t, o)
    \/ \E t \in Slots : CloseRequest(t)
    \/ \E t \in Slots, llm \in {NOT_SCAM_VERDICT, ODD_TYPE_VERDICT} :
          AnalysisSettle(t, llm, Error)
    \/ \E t \in Slots, ok \in BOOLEAN : CallbackAttempt(t, ok)

Spec == Init /\ [][Next]_vars

(***************************************************************************)
(* LongSpec: one conversation of session "s1", turn by turn: a request is  *)
(* sent only when the previous one and its background task are finished.   *)
(***************************************************************************)
LongNext ==
    \/ /\ received < LongRequests
       /\ Busy = {}
       /\ \E m \in Messages, h \in HistoryLengths : Receive("s1", m, h)
    \/ \E t \in Slots, o \in PersonaOutcomes : PersonaSettle(t, o)
    \/ \E t \in Slots : CloseRequest(t)
    \/ \E t \in Slots, llm \in ClassifierOutcomes, ai \in ExtractorOutcomes :
          AnalysisSettle(t, llm, ai)
    \/ \E t \in Slots, ok \in BOOLEAN : CallbackAttempt(t, ok)

LongSpec == Init /\ [][LongNext]_vars

(***************************************************************************)
(* SweepSpec: requests arrive one at a time while time passes: the cleanup *)
(* timer may run between any two steps, up to MaxTicks times.              *)
(***************************************************************************)
\* sendFinalCallback starts right after the update that refreshed lastUpdated
\* and ends within 3 attempts of 8000 ms and 2 delays of 1500 ms: the next
\* sweep never finds the session of a report in flight idle for an hour
ReportOutlivesNoSweep ==
    \A t \in Slots :
        requests[t].pc = "callback" =>
            requests[t].sessionId \in
                DOMAIN cleanupSessions(sessions, now + CLEANUP_INTERVAL)

SweepNext ==
    \/ /\ received < MaxRequests
       /\ Busy = {}
       /\ \E s \in SessionIds, m \in Messages, h \in ShortOrFullHistory : Receive(s, m, h)
    \/ \E t \in Slots : PersonaSettle(t, [kind |-> "text", content |-> GOOD_REPLY_TEXT])
    \/ \E t \in Slots : AnalysisSettle(t, NOT_SCAM_VERDICT, Error)
    \/ \E t \in Slots, ok \in BOOLEAN : CallbackAttempt(t, ok)
    \/ /\ ticks < MaxTicks
       /\ ReportOutlivesNoSweep
       /\ CleanupTimer

SweepSpec == Init /\ [][SweepNext]_vars

(***************************************************************************)
(* ReplySpec: one call of generatePersonaReply on arguments drawn from     *)
(* bounded sets                                                            *)
(***************************************************************************)
\* n characters "a", with a "." at every k-th position (none when k = 0)
Filler(n, k) == [i \in 1..n |-> IF k > 0 /\ i % k = 0 THEN "." ELSE "a"]

GeneratorTexts ==
    { pre \o Filler(n, k) \o suf :
        pre \in {<<>>, <<"\"">>, <<" ", ".", " ">>},
        n   \in {0, 9, 10, 299, 300, 301, MaxGenLen},
        k   \in {0, 7},
        suf \in {<<>>, <<"?">>, <<".", ".", ".">>, <<Ellipsis>>, <<"\"">>, <<"?", " ">>} }

ReplyScamTypes ==
    {STR_bank_fraud, STR_upi_fraud, STR_phishing, STR_unknown, STR_lottery, STR_constructor}

PersonaCalls ==
    [ scamType      : ReplyScamTypes
    , historyLength : {0, 2, 7, 10, 14, 17}
    , totalAtCall   : {0, 5}
    , laterUpdates  : {0, 3}
    , outcome       : {Error} \cup {[kind |-> "text", content |-> c] : c \in GeneratorTexts} ]

ReplyInit ==
    /\ sessions = EmptyObject
    /\ now = 0
    /\ ticks = 0
    /\ requests = [t \in Slots |-> Idle]
    /\ received = 0
    /\ processed = [s \in SessionIds |-> 0]
    /\ callbacks = [s \in SessionIds |-> 0]
    /\ lastVerdict = [s \in SessionIds |-> "none"]
    /\ evicted = [s \in SessionIds |-> FALSE]
    /\ personaCall \in PersonaCalls
    /\ personaReply = Pending
    /\ call = NoCall
    /\ result = NotReturned

Generate ==
    /\ personaReply = Pending
    /\ personaReply' = generatePersonaReply(personaCall.scamType, personaCall.historyLength,
                          personaCall.totalAtCall,
                          personaCall.totalAtCall + personaCall.laterUpdates,
                          personaCall.outcome)
    /\ UNCHANGED <<personaCall, orchestratorVars, functionVars>>

ReplyNext == Generate

ReplySpec == ReplyInit /\ [][ReplyNext]_vars

(***************************************************************************)
(* IntelSpec: one conversation of session "s1", turn by turn, in which the *)
(* extractor answers with links and phone numbers in several spellings;    *)
(* the generator and the classifier answer.                                *)
(***************************************************************************)
LINK_TEXT == <<"h", "t", "t", "p", ":", "/", "/", "x", ".", "c", "o">>

\* the same link followed by two separators
LINK_TEXT_TWO_SEPARATORS == LINK_TEXT \o <<";", ";">>

PHONE_TEXT_PREFIXED == <<"+", "9", "1", "-", "9", "8", "7", "6", "5", "4", "3", "2", "1", "0">>

\* the link of LINK_TEXT as it ends a sentence, and in capitals between spaces
LINK_TEXT_FULL_STOP == <<"h", "t", "t", "p", ":", "/", "/", "x", ".", "c", "o", ".">>

LINK_TEXT_CAPITALS == <<" ", "H", "T", "T", "P", ":", "/", "/", "X", ".", "C", "O", " ">>

IntelOutcomes ==
    { Error
    , [kind |-> "json", result |-> [links |-> <<LINK_TEXT_FULL_STOP>>]]
    , [kind |-> "json", result |-> [links |-> <<LINK_TEXT_CAPITALS>>]]
    , [kind |-> "json", result |-> [links |-> <<LINK_TEXT>>]]
    , [kind |-> "json", result |-> [links |-> << <<"b", "i", "t", ".", "l", "y", "/", "A", "b", "C">>
                                              , <<"b", "i", "t", ".", "l", "y", "/", "a", "b", "c">> >>]]
    , [kind |-> "json", result |-> [orgNames |-> << <<" ", "S", "B", "I", " ">>, <<>>, <<" ">> >>]]
    , [kind |-> "json", result |-> [urls |-> <<LINK_TEXT_TWO_SEPARATORS>>]]
    , [kind |-> "json", result |-> [phones |-> <<PHONE_TEXT>>]]
    , [kind |-> "json", result |-> [phoneNumbers |-> <<PHONE_TEXT_PREFIXED, PHONE_TEXT>>]] }

IntelNext ==
    \/ /\ received < MaxRequests
       /\ Busy = {}
       /\ \E m \in Messages, h \in ShortOrFullHistory : Receive("s1", m, h)
    \/ \E t \in Slots : PersonaSettle(t, [kind |-> "text", content |-> GOOD_REPLY_TEXT])
    \/ \E t \in Slots, ai \in IntelOutcomes : AnalysisSettle(t, NOT_SCAM_VERDICT, ai)
    \/ \E t \in Slots, ok \in BOOLEAN : CallbackAttempt(t, ok)

IntelSpec == Init /\ [][IntelNext]_vars

(***************************************************************************)
(* FunctionSpec: one call of a function of the services on arguments drawn *)
(* from bounded sets                                                       *)
(***************************************************************************)
\* values of an intelligence array: two strings and the empty string
INTEL_A == <<"a">>

INTEL_B == <<"b">>

MergeArrays ==
    UNION {[1..n -> {INTEL_A, INTEL_B, <<>>}] : n \in 0..MaxLen}

\* the array fields of an update (an extraction result and the tactics)
MergeUpdates == [phoneNumbers : MergeArrays, tacticsObserved : MergeArrays]

\* the session the update is merged into: new, or holding values already
MergeSessions ==
    { newSession("s1", 0)
    , [newSession("s1", 0) EXCEPT !.phoneNumbers = <<INTEL_A>>,
                                  !.tacticsObserved = <<INTEL_B, INTEL_A>>,
                                  !.totalMessages = 1] }

MergeCalls ==
    {[fn |-> "updateSession", session |-> s, updates |-> u] :
        s \in MergeSessions, u \in MergeUpdates}

\* 10-digit national numbers: mobile numbers (first digit 6 to 9) and
\* numbers of the fixed network (area code first)
PhoneNationals ==
    { <<"9", "8", "7", "6", "5", "4", "3", "2", "1", "0">>
    , <<"6", "0", "0", "0", "0", "0", "0", "0", "0", "1">>
    , <<"2", "2", "1", "2", "3", "4", "5", "6", "7", "8">>
    , <<"5", "5", "5", "1", "2", "3", "4", "5", "6", "7">> }

\* a national number written with separators: "(" or nothing in front, and
\* a separator after the fifth digit
Spelling(national, open, sep) ==
    open \o SubSeq(national, 1, 5) \o sep \o SubSeq(national, 6, 10)

PhoneCalls ==
    {[fn |-> "normalizePhone", national |-> n, open |-> o, sep |-> s] :
        n \in PhoneNationals,
        o \in {<<>>, <<"(">>},
        s \in {<<>>, <<" ">>, <<"-">>, <<".">>, <<")", " ">>}}

PhaseCalls == {[fn |-> "getEngagementPhase", turnCount |-> n] : n \in 0..MaxTurnIndex}

\* the sessions handed to sendFinalCallback: new, or holding a value in
\* every intelligence array
ReportSessions ==
    { newSession("s1", 0)
    , [newSession("s1", 0) EXCEPT !.phoneNumbers = <<PHONE_TEXT>>,
                                  !.upiIds = <<INTEL_A>>,
                                  !.bankAccounts = <<INTEL_B>>,
                                  !.ifscCodes = <<INTEL_A, INTEL_B>>,
                                  !.phishingLinks = <<LINK_TEXT>>,
                                  !.emailAddresses = <<INTEL_B, INTEL_A>>,
                                  !.orgNames = <<INTEL_A>>,
                                  !.suspiciousKeywords = <<STR_OTP>>,
                                  !.scamConfirmed = TRUE,
                                  !.totalMessages = 8] }

\* texts with one "@" (payment handles and e-mail addresses) and texts
\* whose only digit run is a numeric token of 11 and of 18 digits
AtTexts ==
    { <<"r", "a", "m", "e", "s", "h", ".", "k", "u", "m", "a", "r", "5", "2", "@", "o", "k", "a", "x", "i", "s">>
    , <<"o", "f", "f", "e", "r", "s", "@", "f", "a", "k", "e", "-", "a", "m", "a", "z", "o", "n", "-", "d", "e", "a", "l", "s", ".", "c", "o", "m">>
    , <<"c", "a", "s", "h", "b", "a", "c", "k", ".", "s", "c", "a", "m", "@", "f", "a", "k", "e", "u", "p", "i">>
    , <<"r", "a", "m", "e", "s", "h", "@", "g", "m", "a", "i", "l", ".", "c", "o", "m">>
    , <<"P", "a", "y", " ", "t", "o", " ", "r", "a", "m", "e", "s", "h", ".", "k", "u", "m", "a", "r", "5", "2", "@", "o", "k", "a", "x", "i", "s", " ", "n", "o", "w">>
    , <<"A", "/", "c", " ", "1", "2", "3", "4", "5", "6", "7", "8", "9", "0", "1", " ", "n", "o", "w">>
    , <<"1", "2", "3", "4", "5", "6", "7", "8", "9", "0", "1", "2", "3", "4", "5", "6", "7", "8">> }

AtCalls == {[fn |-> "extractWithRegex", text |-> x] : x \in AtTexts}

\* messages by what the patterns of detectScam find in them: the urgency,
\* OTP, "call me" and "share your" patterns (weights 2, 3, 1, 2), a
\* high-risk keyword, and the words that pick the deterministic scam type
DetectMessages ==
    {MSG_OTP} \cup
    { [ id |-> "flags", redFlags |-> f, highRisk |-> h, typeHints |-> y
      , regex |-> EmptyExtraction ] :
        f \in SUBSET {1, 2, 9, 10}, h \in BOOLEAN, y \in {{}, {"bank"}, {"upi", "bank"}} }

DetectCalls ==
    {[fn |-> "detectScam", message |-> m, llm |-> l] :
        m \in DetectMessages, l \in ClassifierOutcomes}

\* acceptedAt: the attempts that the endpoint would accept, if made
ReportCalls ==
    {[fn |-> "sendFinalCallback", session |-> s, acceptedAt |-> a] :
        s \in ReportSessions, a \in SUBSET (1..(MAX_RETRIES + 1))}

FunctionCalls ==
    MergeCalls \cup PhoneCalls \cup PhaseCalls \cup ReportCalls \cup AtCalls
        \cup DetectCalls

FunctionInit ==
    /\ sessions = EmptyObject
    /\ now = 0
    /\ ticks = 0
    /\ requests = [t \in Slots |-> Idle]
    /\ received = 0
    /\ processed = [s \in SessionIds |-> 0]
    /\ callbacks = [s \in SessionIds |-> 0]
    /\ lastVerdict = [s \in SessionIds |-> "none"]
    /\ evicted = [s \in SessionIds |-> FALSE]
    /\ personaCall = NoCall
    /\ personaReply = Pending
    /\ call \in FunctionCalls
    /\ result = NotReturned

\* updateSession(sessionId, updates) called twice with the same updates
MergeTwice ==
    LET once  == updateSession(("s1" :> call.session), "s1", call.updates, 0)
        twice == updateSession(once, "s1", call.updates, 0)
    IN  /\ call.fn = "updateSession"
        /\ ~result.done
        /\ result' = [done |-> TRUE, once |-> once["s1"], twice |-> twice["s1"]]
        /\ UNCHANGED <<call, orchestratorVars, personaVars>>

\* normalizePhone on the three ways of writing one national number
NormalizeThreeForms ==
    LET spelled == Spelling(call.national, call.open, call.sep)
    IN  /\ call.fn = "normalizePhone"
        /\ ~result.done
        /\ result' = [ done        |-> TRUE
                      , national    |-> normalizePhone(spelled)
                      , plusCountry |-> normalizePhone(<<"+", "9", "1">> \o spelled)
                      , country     |-> normalizePhone(<<"9", "1", " ">> \o spelled) ]
        /\ UNCHANGED <<call, orchestratorVars, personaVars>>

\* getEngagementPhase on a turn index and on the next one
PhaseOfTurn ==
    /\ call.fn = "getEngagementPhase"
    /\ ~result.done
    /\ result' = [ done  |-> TRUE
                  , phase |-> getEngagementPhase(call.turnCount)
                  , next  |-> getEngagementPhase(call.turnCount + 1) ]
    /\ UNCHANGED <<call, orchestratorVars, personaVars>>

\* one delivery attempt of sendFinalCallback(session)
DeliveryAttempt ==
    LET attempt == IF "attempts" \in DOMAIN result THEN result.attempts + 1 ELSE 1
        step    == sendFinalCallbackAttempt(attempt, attempt \in call.acceptedAt)
    IN  /\ call.fn = "sendFinalCallback"
        /\ ~result.done
        /\ result' = IF step.returned
                     THEN [ done     |-> TRUE
                          , attempts |-> attempt
                          , value    |-> step.value
                          , payload  |-> buildPayload(call.session) ]
                     ELSE [done |-> FALSE, attempts |-> attempt]
        /\ UNCHANGED <<call, orchestratorVars, personaVars>>

\* extractWithRegex(text)
ExtractHandles ==
    /\ call.fn = "extractWithRegex"
    /\ ~result.done
    /\ result' = [ done           |-> TRUE
                  , phoneNumbers   |-> extractWithRegex(call.text).phoneNumbers
                  , upiIds         |-> extractWithRegex(call.text).upiIds
                  , emailAddresses |-> extractWithRegex(call.text).emailAddresses
                  , bankAccounts   |-> extractWithRegex(call.text).bankAccounts ]
    /\ UNCHANGED <<call, orchestratorVars, personaVars>>

\* detectScam(message, conversationHistory)
DetectOnce ==
    /\ call.fn = "detectScam"
    /\ ~result.done
    /\ result' = [done |-> TRUE, value |-> detectScam(call.message, call.llm)]
    /\ UNCHANGED <<call, orchestratorVars, personaVars>>

FunctionNext ==
    \/ DetectOnce
    \/ MergeTwice
    \/ NormalizeThreeForms
    \/ PhaseOfTurn
    \/ DeliveryAttempt
    \/ ExtractHandles

FunctionSpec == FunctionInit /\ [][FunctionNext]_vars

\* Every attempt ends (axios timeout of 8000 ms) and every delay between
\* attempts is a timer of 1500 ms: a pending invocation takes its next step.
DeliverySpec == FunctionInit /\ [][FunctionNext]_vars /\ WF_vars(DeliveryAttempt)

(***************************************************************************)
(* Turns of one session handled concurrently: a turn is received while     *)
(* the background tasks of earlier ones are in flight, and the tasks       *)
(* settle in any order, each with its own verdict and extraction result.   *)
(***************************************************************************)
RaceOutcomes ==
    { [kind |-> "json", result |-> [links |-> <<LINK_TEXT>>]]
    , [kind |-> "json", result |-> [phones |-> <<PHONE_TEXT>>]] }

RaceNext ==
    \/ /\ received < MaxRequests
       /\ \E h \in ShortOrFullHistory : Receive("s1", MSG_HELLO, h)
    \/ \E t \in Slots : PersonaSettle(t, [kind |-> "text", content |-> GOOD_REPLY_TEXT])
    \/ \E t \in Slots, llm \in {NOT_SCAM_VERDICT, ODD_TYPE_VERDICT}, ai \in RaceOutcomes :
          AnalysisSettle(t, llm, ai)
    \/ \E t \in Slots, ok \in BOOLEAN : CallbackAttempt(t, ok)

RaceSpec == Init /\ [][RaceNext]_vars

(***************************************************************************)
(* A turn received while the background task of the turn before it is in   *)
(* flight: up to OverlapRequests turns of one session, the persona call of *)
(* one pending while the update and the report of another settle.          *)
(***************************************************************************)
OverlapRequests == 3

OverlapNext ==
    \/ /\ received < OverlapRequests
       /\ \E h \in ShortOrFullHistory : Receive("s1", MSG_HELLO, h)
    \/ \E t \in Slots, o \in {Error, [kind |-> "text", content |-> GOOD_REPLY_TEXT]} :
          PersonaSettle(t, o)
    \/ \E t \in Slots, llm \in {Error, NOT_SCAM_VERDICT} : AnalysisSettle(t, llm, Error)
    \/ \E t \in Slots, ok \in BOOLEAN : CallbackAttempt(t, ok)

OverlapSpec == Init /\ [][OverlapNext]_vars

(***************************************************************************)
(* TaskSpec: OverlapSpec with progress of the background tasks.  The       *)
(* classifier call and the extractor call each race a timer of 8000 ms     *)
(* (Promise.race), so the analysis of a started task can always settle by  *)
(* the two timeouts; every report attempt carries a timeout of 8000 ms and *)
(* can settle by a failure.  The event loop runs a timer that is due: as   *)
(* long as some task waits, one such step is taken.                        *)
(***************************************************************************)
TaskSpec ==
    /\ Init
    /\ [][OverlapNext]_vars
    /\ WF_vars(\E t \in Slots : AnalysisSettle(t, Error, Error) \/ CallbackAttempt(t, FALSE))

(***************************************************************************)
(* KeySpec: requests arrive at the router with or without an x-api-key     *)
(* header, at a server started with or without API_KEY in its environment  *)
(* (the middleware reads process.env.API_KEY anew for every request).      *)
(***************************************************************************)
ApiKeyPairs == {Undefined, <<"k">>} \X {Undefined, <<"k">>, <<"x">>}

KeyNext ==
    \/ /\ received < MaxRequests
       /\ \E k \in ApiKeyPairs, s \in SessionIds, h \in ShortOrFullHistory :
             Arrive(k[1], k[2], s, MSG_OTP, h)
    \/ \E t \in Slots : PersonaSettle(t, [kind |-> "text", content |-> GOOD_REPLY_TEXT])
    \/ \E t \in Slots : CloseRequest(t)
    \/ \E t \in Slots : AnalysisSettle(t, NOT_SCAM_VERDICT, Error)
    \/ \E t \in Slots : CallbackAttempt(t, TRUE)

KeySpec == Init /\ [][KeyNext]_vars

(***************************************************************************)
(* LiveSpec: Spec with progress of the request handlers.  The generator    *)
(* call of every request settles (it is assumed to end, by an answer or by *)
(* an error of its client: failing stays possible as long as the call is   *)
(* pending, and any outcome ends the pending) and the handler of an        *)
(* answered request runs to its end.  Nothing is assumed of the background *)
(* tasks.                                                                  *)
(***************************************************************************)
LiveSpec ==
    /\ Init
    /\ [][Next]_vars
    /\ (\A t \in Slots : WF_vars(PersonaSettle(t, Error)))
    /\ (\A t \in Slots : WF_vars(CloseRequest(t)))

(***************************************************************************)
(* Properties                                                              *)
(***************************************************************************)

\* C1: for every session, whatever the interleaving of the background
\* tasks, sendFinalCallback is invoked at most once.
C1_AtMostOneCallback ==
    \A s \in SessionIds : callbacks[s] <= 1

\* C2: every answered request carries status 200 and a body
\* {status: "success", reply: <non-empty string>}.
C2_AlwaysSuccessWithReply ==
    \A t \in Slots :
        requests[t].pc = "responded" =>
            /\ requests[t].response.status = 200
            /\ requests[t].response.body.status = "success"
            /\ "reply" \in DOMAIN requests[t].response.body
            /\ Len(requests[t].response.body.reply) > 0

\* C3: scamConfirmed is monotonic: in every step, a session that is confirmed
\* before the step and still stored after it is confirmed after it.
C3_ScamConfirmedMonotonic ==
    [][\A s \in DOMAIN sessions \cap DOMAIN sessions' :
          sessions[s].scamConfirmed => sessions'[s].scamConfirmed]_vars

\* a confirmed session into which a later message, classified as not a scam,
\* has been merged
C3_ConfirmedThenCleanTurn ==
    \E s \in DOMAIN sessions :
        /\ sessions[s].scamConfirmed
        /\ lastVerdict[s] = "clean"
        /\ processed[s] >= 2

\* C4: totalMessages of a session equals the number of inbound messages
\* merged into it, at every moment, also after the report was recorded.
C4_TotalMessagesCountsMessages ==
    \A s \in DOMAIN sessions : sessions[s].totalMessages = processed[s]

\* C5: for a confirmed session, sendFinalCallback is not invoked before 8
\* inbound messages of the session have been merged, whatever history
\* lengths the caller supplied.
C5_NoCallbackBeforeEightMessages ==
    \A s \in DOMAIN sessions :
        (sessions[s].scamConfirmed /\ callbacks[s] > 0) => processed[s] >= NEAR_END_MESSAGES

\* C6: once 10 inbound messages of a session have been merged and no
\* background task is running, sendFinalCallback has been invoked for it.
C6_CallbackByTenthMessage ==
    \A s \in DOMAIN sessions :
        (processed[s] >= DEFINITELY_END_TURN /\ Busy = {}) => callbacks[s] >= 1

\* C7: when the generator call fails, generatePersonaReply returns an
\* utterance of the fallback table.
C7_FailureYieldsFallbackUtterance ==
    (personaReply # Pending /\ personaCall.outcome.kind = "error")
        => personaReply \in FallbackUtterances

\* C8: every valid request that waits for the generator is eventually
\* answered with a body that carries a reply.
C8_ReplyEventuallyDelivered ==
    \A n \in 1..MaxRequests :
        (\E t \in Slots : requests[t].pc = "persona" /\ requests[t].id = n)
            ~> (\E t \in Slots : /\ requests[t].pc = "responded"
                                 /\ requests[t].id = n
                                 /\ "reply" \in DOMAIN requests[t].response.body)

\* C9: every reply returned by generatePersonaReply ends in "?", "..." or
\* the ellipsis character.
C9_ReplyEndsWithHook ==
    (personaReply # Pending /\ personaReply # Undefined) => endsWithHook(personaReply)

\* C10: every reply returned by generatePersonaReply has at most
\* MAX_REPLY_LENGTH characters.
C10_ReplyWithinMaxLength ==
    (personaReply # Pending /\ personaReply # Undefined)
        => Len(personaReply) <= MAX_REPLY_LENGTH

\* C11: a turn whose classifier call fails leaves the confirmation of an
\* unconfirmed session as it was: scamConfirmed stays false and scamType
\* keeps its value.
C11_ClassifierFailureKeepsConfirmation ==
    [][\A t \in Slots, ai \in ExtractorOutcomes :
          (AnalysisSettle(t, Error, ai) /\ ~sessions[requests[t].sessionId].scamConfirmed)
              => /\ ~sessions'[requests[t].sessionId].scamConfirmed
                 /\ sessions'[requests[t].sessionId].scamType
                        = sessions[requests[t].sessionId].scamType]_vars

\* C12: merging the same update into a session a second time leaves every
\* intelligence array as the first merge left it, contents and order.
C12_MergeIdempotent ==
    (call.fn = "updateSession" /\ result.done)
        => \A f \in arrayFields : result.twice[f] = result.once[f]

\* a merge that added values to the session, from an update that names one
\* value twice, applied twice
C12_MergedTwice ==
    /\ call.fn = "updateSession"
    /\ result.done
    /\ call.updates.phoneNumbers = <<INTEL_B, INTEL_B>>
    /\ result.once.phoneNumbers # call.session.phoneNumbers
    /\ result.twice.phoneNumbers = result.once.phoneNumbers

\* C13: no intelligence array of a stored session holds two entries with
\* the same normalized value.
C13_NoDuplicateNormalizedValue ==
    \A s \in DOMAIN sessions, f \in arrayFields :
        \A i, j \in 1..Len(sessions[s][f]) :
            i < j => normalizerOf(f, sessions[s][f][i]) # normalizerOf(f, sessions[s][f][j])

\* C14: a 10-digit national number N written as "N", "+91N" and "91 N",
\* with any separators, is normalized to one and the same string.
C14_PhoneFormsNormalizeAlike ==
    (call.fn = "normalizePhone" /\ result.done)
        => /\ result.national = result.plusCountry
           /\ result.country = result.plusCountry

\* C15: getEngagementPhase returns STALLING for the turn indices 0 to 2,
\* EXTRACTING for 3 and 4, FAKE_COOPERATING for 5 and 6, CONFUSION_LOOP from
\* 7 on, and the phase of the next index is never an earlier phase.
C15_PhaseOfTurnIndex ==
    (call.fn = "getEngagementPhase" /\ result.done)
        => /\ (call.turnCount \in 0..2 => result.phase = "STALLING")
           /\ (call.turnCount \in 3..4 => result.phase = "EXTRACTING")
           /\ (call.turnCount \in 5..6 => result.phase = "FAKE_COOPERATING")
           /\ (call.turnCount >= 7 => result.phase = "CONFUSION_LOOP")
           /\ \E i, j \in 1..Len(PhaseOrder) :
                 /\ PhaseOrder[i] = result.phase
                 /\ PhaseOrder[j] = result.next
                 /\ i <= j

\* the phase of the last index before the confusion loop has been computed
C15_PhaseBoundaryComputed ==
    /\ call.fn = "getEngagementPhase"
    /\ result.done
    /\ call.turnCount = 6
    /\ result.phase = "FAKE_COOPERATING"
    /\ result.next = "CONFUSION_LOOP"

\* C16: the lookup of a request creates, for an unseen id, a session with
\* every intelligence array empty, both flags false, scamType null and
\* totalMessages 0, and changes no other session; for a stored id it leaves
\* the whole store as it is.
C16_GetOrCreateSession ==
    [][\A s \in SessionIds :
          (\E m \in Messages, h \in HistoryLengths : Receive(s, m, h))
              => IF s \in DOMAIN sessions
                 THEN sessions' = sessions
                 ELSE /\ DOMAIN sessions' = DOMAIN sessions \cup {s}
                      /\ \A k \in DOMAIN sessions : sessions'[k] = sessions[k]
                      /\ \A f \in arrayFields : sessions'[s][f] = <<>>
                      /\ ~sessions'[s].scamConfirmed
                      /\ ~sessions'[s].callbackSent
                      /\ sessions'[s].scamType = Null
                      /\ sessions'[s].totalMessages = 0
                      /\ sessions'[s].sessionId = s]_vars

\* a request has looked up a session that already held a merged message,
\* after time had passed since that merge
C16_LookupOfStoredSession ==
    \E t \in Slots :
        /\ requests[t].pc = "persona"
        /\ requests[t].totalAtCall >= 1
        /\ requests[t].sessionId \in DOMAIN sessions
        /\ now > sessions[requests[t].sessionId].lastUpdated

\* C17: a run of the idle sweep removes exactly the sessions last updated
\* more than one hour before the time of the sweep, and every other session
\* stays in the store with all of its fields as they were.
C17_SweepRemovesExactlyIdle ==
    [][CleanupTimer =>
          /\ DOMAIN sessions' =
                {id \in DOMAIN sessions : sessions[id].lastUpdated + 3600000 >= now'}
          /\ \A id \in DOMAIN sessions' : sessions'[id] = sessions[id]]_vars

\* the sweep has removed the session of a request still in flight, which
\* had been idle for more than the hour
C17_IdleSessionSwept ==
    \E t \in Slots :
        /\ requests[t].pc \in {"persona", "callback"}
        /\ ~requests[t].ref.live
        /\ requests[t].sessionId \notin DOMAIN sessions
        /\ now - requests[t].ref.detached.lastUpdated > 3600000

\* C18: once the sweep has removed a session, the next step that refers
\* to its id (the lookup of a new turn, or the store update of a background
\* task that was in flight) puts a fresh session in the store: created at that
\* time, callbackSent false, and holding nothing but what this step itself
\* brings: no message counted and every array empty after a lookup; one
\* message counted, the verdict of this turn and only values extracted from
\* this turn's message after an update.
C18_SweptSessionReappearsFresh ==
    [][\A s \in SessionIds :
          (evicted[s] /\ s \notin DOMAIN sessions /\ s \in DOMAIN sessions')
              => LET n == sessions'[s]
                 IN  /\ ~n.callbackSent
                     /\ n.createdAt = now'
                     /\ IF \E m \in Messages, h \in HistoryLengths : Receive(s, m, h)
                        THEN /\ n.totalMessages = 0
                             /\ ~n.scamConfirmed
                             /\ n.scamType = Null
                             /\ \A f \in arrayFields : n[f] = <<>>
                        ELSE \E t \in Slots :
                             /\ requests[t].pc = "responded"
                             /\ requests[t].sessionId = s
                             /\ n.totalMessages = 1
                             /\ n.scamConfirmed <=> lastVerdict'[s] = "scam"
                             /\ Len(n.tacticsObserved) <= 1
                             /\ \A f \in arrayFields \ {"tacticsObserved"} :
                                   \A i \in 1..Len(n[f]) :
                                       Contains(requests[t].message.regex[f], n[f][i])]_vars

\* a session of two turns: the sweep removed it after the first, the second
\* has put it back, and it counts the one message merged since
C18_RecreatedByTaskInFlight ==
    \E s \in DOMAIN sessions :
        /\ evicted[s]
        /\ processed[s] = 1
        /\ received = 2
        /\ sessions[s].totalMessages = 1
        /\ sessions[s].createdAt = sessions[s].lastUpdated
        /\ \E t \in Slots : requests[t].pc = "callback" /\ requests[t].sessionId = s

\* C19: a step of a turn (its lookup, its reply, its update, its report)
\* leaves every session other than the turn's own in the store with every
\* field as it was, whatever turns of other sessions are in flight.
C19_SessionsIndependent ==
    [][\A t \in Slots :
          requests'[t] # requests[t]
              => LET r == IF requests[t].pc = "idle" THEN requests'[t] ELSE requests[t]
                 IN  \A b \in DOMAIN sessions :
                         ("sessionId" \in DOMAIN r => b # r.sessionId)
                             => /\ b \in DOMAIN sessions'
                                /\ sessions'[b] = sessions[b]]_vars

\* the reports of two turns, one of each session, are in flight together,
\* each session holding the message that its turn merged
C19_TwoSessionsInFlight ==
    \E t, u \in Slots :
        /\ requests[t].pc = "callback"
        /\ requests[u].pc = "callback"
        /\ requests[t].sessionId # requests[u].sessionId
        /\ \A s \in SessionIds : s \in DOMAIN sessions /\ sessions[s].totalMessages >= 1

\* C20: whatever the order in which the background tasks of the turns of
\* one session settle, the store update of a task adds every value of its
\* extraction result to the session's arrays and confirms the scam if its
\* verdict is a scam, and no step of any task takes a value out of an array
\* or withdraws the confirmation: once the tasks have finished, the session
\* holds every value of all their extraction results and is confirmed if
\* any verdict was a scam.
C20_NoLostUpdate ==
    [][/\ \A s \in DOMAIN sessions :
             /\ s \in DOMAIN sessions'
             /\ sessions[s].scamConfirmed => sessions'[s].scamConfirmed
             /\ \A f \in arrayFields : \A i \in 1..Len(sessions[s][f]) :
                    Contains(sessions'[s][f], sessions[s][f][i])
       /\ \A t \in Slots, llm \in {NOT_SCAM_VERDICT, ODD_TYPE_VERDICT}, ai \in RaceOutcomes :
             AnalysisSettle(t, llm, ai)
                 => LET r == requests[t]
                        e == extractIntelligence(r.message.regex, ai)
                    IN  /\ detectScam(r.message, llm).isScam
                               => sessions'[r.sessionId].scamConfirmed
                        /\ \A f \in DOMAIN e \cap arrayFields : \A i \in 1..Len(e[f]) :
                               Contains(sessions'[r.sessionId][f], e[f][i])]_vars

\* the report of one task is in flight with the session as that task left
\* it (one message, one of the two extraction results), and the task of
\* another turn has since merged the other result: the session holds both
C20_SecondMergedDuringReport ==
    \E t \in Slots :
        /\ requests[t].pc = "callback"
        /\ requests[t].payload.totalMessagesExchanged = 1
        /\ sessions["s1"].totalMessages = 2
        /\ sessions["s1"].phoneNumbers # <<>>
        /\ sessions["s1"].phishingLinks # <<>>
        /\ sessions["s1"].scamConfirmed

\* C21: the update of a turn happens only once its reply has been sent,
\* and the reply sent is one that the persona computes from the session as
\* it was when the turn began (its scamType and totalMessages at the lookup).
C21_ReplyFromStateAtTurnStart ==
    [][\A t \in Slots :
          /\ (requests[t].pc # "idle" /\ requests'[t].pc \in {"idle", "callback"}
                  /\ sessions' # sessions /\ requests[t].pc # "callback")
                 => requests[t].pc = "responded"
          /\ (requests[t].pc = "persona" /\ requests'[t].pc = "responded")
                 => \E o \in PersonaOutcomes :
                       LET reply == generatePersonaReply(requests[t].scamType,
                                        requests[t].historyLength, requests[t].totalAtCall,
                                        requests[t].totalAtCall, o)
                       IN  /\ reply # Undefined
                           /\ requests'[t].response.body =
                                  [status |-> "success", reply |-> reply]]_vars

\* C22: an invocation of sendFinalCallback makes at most 3 delivery
\* attempts, returns success at the first accepted attempt and makes none
\* after it, returns failure when 3 attempts have failed, and always returns
\* a value (it ends, and with a return, not a throw).
C22_AtMostThreeAttemptsThenReturn ==
    /\ [](call.fn = "sendFinalCallback" =>
            /\ "attempts" \in DOMAIN result => result.attempts <= 3
            /\ result.done =>
                  /\ \A k \in 1..(result.attempts - 1) : k \notin call.acceptedAt
                  /\ result.value.success <=> result.attempts \in call.acceptedAt
                  /\ ~result.value.success => result.attempts = 3)
    /\ [](call.fn = "sendFinalCallback" => <>result.done)

\* an invocation has returned success at its third attempt, the first two
\* having failed
C22_AcceptedAtThirdAttempt ==
    /\ call.fn = "sendFinalCallback"
    /\ result.done
    /\ result.attempts = 3
    /\ result.value.success

\* C23: when the last attempt of a report fails, so that the invocation of
\* sendFinalCallback returns failure, the session's callbackSent stays false.
C23_FailedReportLeavesFlagFalse ==
    [][\A t \in Slots :
          (/\ requests[t].pc = "callback"
           /\ sendFinalCallbackAttempt(requests[t].attempt, FALSE).returned
           /\ ~sendFinalCallbackAttempt(requests[t].attempt, FALSE).value.success
           /\ CallbackAttempt(t, FALSE)
           /\ requests[t].sessionId \in DOMAIN sessions
           /\ ~sessions[requests[t].sessionId].callbackSent)
              => ~sessions'[requests[t].sessionId].callbackSent]_vars

\* C24: the extractedIntelligence object of the payload that
\* sendFinalCallback builds has a member for every intelligence set of the
\* session (phone numbers, payment handles, bank accounts, IFSC codes,
\* phishing links, email addresses, organization names), each holding
\* exactly the values of the session.
C24_PayloadHoldsEverySet ==
    (call.fn = "sendFinalCallback" /\ result.done)
        => \A f \in {"phoneNumbers", "upiIds", "bankAccounts", "ifscCodes",
                      "phishingLinks", "emailAddresses", "orgNames"} :
               /\ f \in DOMAIN result.payload.extractedIntelligence
               /\ result.payload.extractedIntelligence[f] = call.session[f]

\* C25: a request without sessionId, without message or without
\* message.text is answered with status success and the generic reply, and
\* neither its receipt nor any later step of it changes the session store:
\* it starts no background task and is closed as it is.
C25_MalformedRequestLeavesStore ==
    [][/\ \A b \in {"no_sessionId", "no_message", "no_text"} :
             ReceiveMalformed(b)
                 => /\ sessions' = sessions
                    /\ \E t \in Slots :
                          /\ requests[t].pc = "idle"
                          /\ requests'[t].pc = "responded"
                          /\ ~requests'[t].background
                          /\ requests'[t].response.status = 200
                          /\ requests'[t].response.body.status = "success"
                          /\ requests'[t].response.body.reply = INVALID_REQUEST_REPLY
       /\ \A t \in Slots :
             (requests[t].pc = "responded" /\ requests[t].malformed
                  /\ requests'[t] # requests[t])
                 => /\ sessions' = sessions
                    /\ requests'[t].pc = "idle"
                    /\ callbacks' = callbacks]_vars

\* a malformed request has been answered while a session holding a merged
\* message is in the store
C25_MalformedAnsweredBesideSession ==
    \E t \in Slots :
        /\ requests[t].pc = "responded"
        /\ requests[t].malformed
        /\ requests[t].response.body.reply = INVALID_REQUEST_REPLY
        /\ \E s \in DOMAIN sessions : sessions[s].totalMessages >= 1

\* C26: the regex extractor puts a token with "@" in exactly one set: when
\* no "." follows the "@" in the token, the handle is in upiIds and
\* emailAddresses is empty; when a dotted domain follows, the address is in
\* emailAddresses and upiIds holds no entry, whole or truncated.
C26_HandleOrEmailNotBoth ==
    (call.fn = "extractWithRegex" /\ result.done /\ Contains(call.text, "@"))
        => LET first   == RunStart(call.text, AtIndex(call.text) - 1, EmailLocalChars)
               last    == RunEnd(call.text, AtIndex(call.text) + 1, EmailDomainChars)
               token   == SubSeq(call.text, first, last)
               afterAt == SubSeq(call.text, AtIndex(call.text) + 1, last)
           IN  IF Contains(afterAt, ".")
               THEN result.emailAddresses = <<ToLowerCase(token)>> /\ result.upiIds = <<>>
               ELSE result.upiIds = <<token>> /\ result.emailAddresses = <<>>

\* C27: the link set of a session never holds two entries that differ only
\* in letter case or in punctuation (".", ",", ";") or whitespace after the
\* link, and every entry is stored without surrounding whitespace and in
\* lower case.
C27_OneEntryPerLink ==
    \A s \in DOMAIN sessions :
        LET links == sessions[s].phishingLinks
        IN  /\ \A i \in 1..Len(links) : links[i] = ToLowerCase(Trim(links[i]))
            /\ \A i, j \in 1..Len(links) :
                  (/\ i # j
                   /\ Len(links[i]) <= Len(links[j])
                   /\ SubSeq(links[j], 1, Len(links[i])) = links[i])
                      => \E k \in (Len(links[i]) + 1)..Len(links[j]) :
                             links[j][k] \notin {".", ",", ";"}

\* C28: detectScam answers isScam = true for every message whose red-flag
\* score is at least 4 or that holds a high-risk keyword, whatever the
\* classifier answers and when its call fails; for the message "URGENT:
\* your account will be blocked, share OTP now" (urgency and OTP patterns,
\* score 5) the scam type is bank_fraud when the classifier fails or
\* answers "unknown".
C28_DeterministicDetection ==
    (call.fn = "detectScam" /\ result.done)
        => /\ (SumWeights(call.message.redFlags) >= 4 \/ call.message.highRisk)
                  => result.value.isScam
           /\ (/\ call.message = MSG_OTP
               /\ \/ call.llm.kind # "json"
                  \/ call.llm.raw.scamType = STR_unknown)
                  => result.value.scamType = STR_bank_fraud

\* the classifier has answered "not a scam, type unknown" to the OTP message
\* and detectScam has returned
C28_ClassifierOverruled ==
    /\ call.fn = "detectScam"
    /\ call.message = MSG_OTP
    /\ call.llm = NOT_SCAM_VERDICT
    /\ result.done
    /\ result.value.isScam

C30_RequestWithoutKeyRejected ==
    [][\A k \in ApiKeyPairs, s \in SessionIds, h \in ShortOrFullHistory :
          (k[2] = Undefined \/ k[2] # k[1]) /\ Arrive(k[1], k[2], s, MSG_OTP, h)
              => /\ sessions' = sessions
                 /\ \E t \in Slots :
                       /\ requests'[t] # requests[t]
                       /\ requests'[t].pc = "responded"
                       /\ requests'[t].response.status = 401]_vars

\* C31: in every reachable state every stored session has
\* lastUpdated >= createdAt, and the engagement duration of every report
\* payload is not negative.
C31_LastUpdatedNotBeforeCreatedAt ==
    /\ \A s \in DOMAIN sessions : sessions[s].lastUpdated >= sessions[s].createdAt
    /\ \A t \in Slots :
          requests[t].pc = "callback" =>
              requests[t].payload.engagementMetrics.engagementDurationSeconds >= 0

\* a report is in flight for a session that was updated after the timer had
\* advanced the clock past its creation
C31_ReportOfSessionUpdatedLater ==
    \E t \in Slots :
        /\ requests[t].pc = "callback"
        /\ requests[t].payload.engagementMetrics.engagementDurationSeconds > 0
        /\ requests[t].sessionId \in DOMAIN sessions
        /\ sessions[requests[t].sessionId].lastUpdated
              > sessions[requests[t].sessionId].createdAt

\* C32: when the background task of a turn that the deterministic score
\* classifies as scam has merged its results, the session's
\* suspiciousKeywords hold the signal label the classification returned
\* ("redFlagScore:<n>") together with the keywords the extraction found.
C32_SignalsAndKeywordsMerged ==
    [][\A t \in Slots :
          (/\ requests[t].pc = "responded"
           /\ requests[t].background
           /\ requests'[t].pc # "responded"
           /\ \/ computeRedFlagScore(requests[t].message) >= 4
              \/ requests[t].message.highRisk)
          => LET stored == sessions'[requests[t].sessionId].suspiciousKeywords
                 found  == requests[t].message.regex.suspiciousKeywords
             IN  /\ Contains(stored, redFlagSignal(computeRedFlagScore(requests[t].message)))
                 /\ \A i \in 1..Len(found) : Contains(stored, found[i])]_vars

\* C33: when the generator call fails, the utterance returned is the
\* fallback of the phase of the history-implied turn index
\* floor(conversationHistory.length / 2), whatever totalMessages the session
\* holds at that moment.
C33_FallbackOfHistoryPhase ==
    (/\ personaReply # Pending
     /\ personaCall.outcome = Error
     /\ personaCall.scamType \in DOMAIN fallbacks)
        => personaReply =
              fallbacks[personaCall.scamType]
                       [getEngagementPhase(personaCall.historyLength \div 2)]

\* C34: once a session's scamType is set to a known type, no later turn
\* replaces it by "unknown" (a classification of type "unknown" never has
\* a higher confidence than the one that set the type).
C34_ScamTypeNotReplacedByUnknown ==
    [][\A s \in DOMAIN sessions :
          (/\ sessions[s].scamType \notin {Null, STR_unknown}
           /\ s \in DOMAIN sessions')
          => sessions'[s].scamType # STR_unknown]_vars

\* C35: in every reachable state a session whose report is recorded
\* (callbackSent) is a confirmed one (scamConfirmed): REPORTED is entered
\* from ENGAGED_CONFIRMED only.
C35_ReportedOnlyIfConfirmed ==
    \A s \in DOMAIN sessions :
        sessions[s].callbackSent => sessions[s].scamConfirmed

\* C36: every value stored in a session's upiIds, bankAccounts, ifscCodes,
\* orgNames and suspiciousKeywords is a non-empty string without leading or
\* trailing whitespace.
C36_StoredValuesTrimmed ==
    \A s \in DOMAIN sessions :
        \A f \in {"upiIds", "bankAccounts", "ifscCodes", "orgNames", "suspiciousKeywords"} :
            \A i \in 1..Len(sessions[s][f]) :
                /\ sessions[s][f][i] # <<>>
                /\ Trim(sessions[s][f][i]) = sessions[s][f][i]

\* C37: when the extractor offers the links bit.ly/AbC and bit.ly/abc in one
\* turn, the merge of that turn leaves both in the session's phishingLinks,
\* each with the case of its path as offered.
C37_PathCaseKept ==
    [][LET mixed == <<"b", "i", "t", ".", "l", "y", "/", "A", "b", "C">>
           lower == <<"b", "i", "t", ".", "l", "y", "/", "a", "b", "c">>
       IN  \A t \in Slots :
              AnalysisSettle(t, NOT_SCAM_VERDICT,
                             [kind |-> "json", result |-> [links |-> <<mixed, lower>>]])
              => /\ Contains(sessions'[requests[t].sessionId].phishingLinks, mixed)
                 /\ Contains(sessions'[requests[t].sessionId].phishingLinks, lower)]_vars

\* C38: every started background task of a turn eventually ends, also when
\* neither the classifier nor the extractor answers and no report attempt
\* is accepted.
C38_BackgroundTaskEnds ==
    \A t \in Slots :
        (requests[t].pc = "responded" /\ requests[t].background)
            ~> (requests[t].pc = "idle")

\* the background task of a "hello" turn has ended although the classifier
\* did not answer (only the verdict of the classifier's failure makes
\* "hello" a scam), and a report has failed twice and is at its last attempt
C38_TaskEndedAfterTimeouts ==
    /\ lastVerdict["s1"] = "scam"
    /\ processed["s1"] >= 1
    /\ \E t \in Slots : requests[t].pc = "idle"
    /\ \E t \in Slots : requests[t].pc = "callback" /\ requests[t].attempt = MAX_RETRIES

\* C39: the body sent by a retry of sendFinalCallback has the content of the
\* payload as it was built: the same intelligence arrays and the same
\* counters, whatever other background tasks did to the session meanwhile.
C39_RetrySendsSamePayload ==
    [][\A t \in Slots :
          (/\ requests[t].pc = "callback"
           /\ requests'[t].pc = "callback"
           /\ requests'[t].attempt = requests[t].attempt + 1)
          => serializedPayload(requests[t]) = requests[t].payload]_vars

\* C40: for a text whose only digit run is a standalone numeric token of 11
\* to 18 digits, extractWithRegex returns the token in bankAccounts and not
\* in phoneNumbers.
C40_LongDigitTokenIsAccount ==
    (call.fn = "extractWithRegex" /\ result.done /\ ~Contains(call.text, "@"))
        => LET digits == {Digit[i] : i \in 1..Len(Digit)}
               token  == SelectSeq(call.text, LAMBDA c : c \in digits)
           IN  /\ Contains(result.bankAccounts, token)
               /\ ~Contains(result.phoneNumbers, token)

====
